---- MODULE Spec2Model ----
(***************************************************************************)
(* medminder: the reminder / notification scheduling and state-reset       *)
(* engine of src/App.tsx with the permission hook of                       *)
(* src/hooks/useNotifications.ts.                                          *)
(*                                                                         *)
(* One React component (App) holds the collections as state.  A handler    *)
(* (user action, timer callback, promise resolution) runs to completion,   *)
(* React then renders and flushes the effects of that render before the    *)
(* next timer callback is taken; an action of this model is therefore the  *)
(* handler together with the render and the effects it causes.  State      *)
(* updates made BY effects (the mount effect of the hook, the load effect) *)
(* are queued in `pending` and applied by the following render (Render).   *)
(* Every render of App creates a new showNotification function, which is a *)
(* dependency of both poll effects, so every render tears both intervals   *)
(* down and re-creates them: their callbacks always read the committed     *)
(* collections.                                                            *)
(***************************************************************************)
EXTENDS Integers, Sequences, FiniteSets, TLC

VARIABLES
    phase,            \* "closed" | "starting" | "running" | "torndown"
    permission,       \* useNotifications.ts:4   hook state
    medications,      \* App.tsx:44
    notifiedIds,      \* App.tsx:46
    showPermissionBanner, \* App.tsx:47
    journalEntries,   \* App.tsx:50
    appointments,     \* App.tsx:54
    archivedFiles,    \* App.tsx:58
    pending,          \* state updates queued by effects, applied by the next render
    store,            \* localStorage: key -> blob
    hostPerm,         \* Notification.permission of the host ("absent": no Notification in window)
    clk,              \* index of the current instant in Clock
    medInterval,      \* the setInterval of App.tsx:230
    apptInterval,     \* the setInterval of App.tsx:371
    resetTimer,       \* the pending setTimeout of App.tsx:201
    nextId,           \* ids handed out by generateId so far
    tick,             \* history: what the poll tick, show call, reset or record handler
                      \*   that just ran did (for a handler, kind names it and matched
                      \*   holds the id it was called with or gave the new record)
                      \*   (for a reset, matched holds the ids it had a flag to clear for):
                      \*   perm, host: the permission states at the call(s); matched: the
                      \*   ids the tick selected; called: the ids passed to
                      \*   showNotification; shown: the ids the host displayed; threw:
                      \*   a call raised an exception
    calls,            \* history: showNotification calls per medication id in this day-cycle
    purged,           \* history: <<id, n>> for each medication id deleted while in
                      \*   notifiedIds; n = 0 in the session of the delete, 1 after it
    prevStore,        \* history: the store as the current session found it, kept
                      \*   until a handler runs in the session
    startup,          \* history: 0, or 1 + the renders since the session opened, while
                      \*          no handler has run in it
    orphanFired,      \* history: a daily-reset callback ran after teardown
    probe,            \* an evaluator applied to a record at an instant, outside a
                      \*   session: fn, rec, at are the call, done and out its result
    formState,        \* App.tsx:45, the fields of the medication form
    newJournalEntry,  \* App.tsx:51, the text of the journal form
    appointmentForm,  \* App.tsx:55, the fields of the appointment form
    readers,          \* the FileReader each selected file was given (App.tsx:450):
                      \*   file -> "none", "loading", "loaded" or "failed"
    elapsed,          \* milliseconds passed since the instant Clock(clk)
    tooltip,          \* App.tsx:82-87, the info tooltip: medId (0 for null), content,
                      \*   isLoading; content.about names the medication the text was
                      \*   requested for
    medInfoCache,     \* App.tsx:81, the pairs <<medication name, answer kept for it>>
    infoCalls         \* the medication names of the getMedicationInfo calls that
                      \*   have not resolved yet (App.tsx:327)

vars == <<phase, permission, medications, notifiedIds, showPermissionBanner, journalEntries, appointments,
          archivedFiles, pending, store, hostPerm, clk, medInterval, apptInterval,
          resetTimer, nextId, tick, calls, purged, prevStore, startup, orphanFired,
          probe, formState, newJournalEntry, appointmentForm, readers, elapsed,
          tooltip, medInfoCache, infoCalls>>

----------------------------------------------------------------------------
(* Bounds of the model *)

MaxIds == 2        \* generateId is called at most MaxIds times
MaxClock == 6      \* the clock visits Clock(1) .. Clock(MaxClock)
MaxCalls == 2      \* the per-id call counter saturates here
MaxDay == 2        \* the evaluators are applied at instants of days 1 .. MaxDay
MaxParts == 3      \* sentences in a text of the generative service
MaxSteps == 6      \* steps of 10 seconds the clock makes within one instant of Clock

Ids == 1..MaxIds

----------------------------------------------------------------------------
(* Time.  Instants are milliseconds of local time since midnight of day 0. *)

SecondMs == 1 * 1000
MinuteMs == 60 * SecondMs
HourMs == 60 * MinuteMs
DayMs == 24 * HourMs

P1 == 30000                      \* App.tsx:242  medication poll period
P2 == 5 * 60 * 1000              \* App.tsx:397  appointment poll period
WindowMs == 24 * 60 * 60 * 1000  \* App.tsx:373  appointment window
GraceSeconds == 5                \* App.tsx:197  seconds past midnight

\* The instants of a day the clock stops at: 00:00:05.000, 09:00:01.000 and
\* 09:05:01.000.  Days are numbered from 1; the clock starts at Clock(1), which
\* is 09:00:01 of day 1.
SlotTimes == << GraceSeconds * SecondMs,
                9 * HourMs + SecondMs,
                9 * HourMs + 5 * MinuteMs + SecondMs >>

Clock(i) == (1 + i \div Len(SlotTimes)) * DayMs + SlotTimes[(i % Len(SlotTimes)) + 1]

Now == Clock(clk) + elapsed

\* new Date(y, m, d, 0, 0, 0, 0): local midnight of the day of t
StartOfDay(t) == (t \div DayMs) * DayMs

\* "HH:MM".split(':').map(Number)
Hours(s) ==
    CASE s = "00:00" -> 0 [] s = "09:00" -> 9 [] s = "09:59" -> 9 [] s = "10:00" -> 10
      [] s = "10:01" -> 10 [] s = "23:59" -> 23
Minutes(s) ==
    CASE s = "00:00" -> 0 [] s = "09:00" -> 0 [] s = "09:59" -> 59 [] s = "10:00" -> 0
      [] s = "10:01" -> 1 [] s = "23:59" -> 59

\* new Date(`${date}T${time}`): the date string is modelled by its day number
DateTime(date, time) == date * DayMs + Hours(time) * HourMs + Minutes(time) * MinuteMs

----------------------------------------------------------------------------
(* Records and their serialization *)

PermissionStates == {"default", "granted", "denied"}

Keys == {"medications", "journalEntries", "archivedFiles", "appointments"}

\* JSON.stringify of one record: the fields in declaration order
MedToJson(m) == <<m.id, m.name, m.dosage, m.time, m.isTaken>>
MedFromJson(j) == [id |-> j[1], name |-> j[2], dosage |-> j[3], time |-> j[4], isTaken |-> j[5]]
ApptToJson(a) == <<a.id, a.date, a.time, a.specialty, a.location, a.notified>>
ApptFromJson(j) ==
    [id |-> j[1], date |-> j[2], time |-> j[3], specialty |-> j[4], location |-> j[5],
     notified |-> j[6]]
EntryToJson(e) == <<e.id, e.date, e.content>>
EntryFromJson(j) == [id |-> j[1], date |-> j[2], content |-> j[3]]
FileToJson(f) == <<f.id, f.name, f.mimeType, f.dataUrl>>
FileFromJson(j) == [id |-> j[1], name |-> j[2], mimeType |-> j[3], dataUrl |-> j[4]]

ToJson(k, r) ==
    CASE k = "medications" -> MedToJson(r)
      [] k = "journalEntries" -> EntryToJson(r)
      [] k = "archivedFiles" -> FileToJson(r)
      [] k = "appointments" -> ApptToJson(r)
FromJson(k, j) ==
    CASE k = "medications" -> MedFromJson(j)
      [] k = "journalEntries" -> EntryFromJson(j)
      [] k = "archivedFiles" -> FileFromJson(j)
      [] k = "appointments" -> ApptFromJson(j)

\* A stored blob: getItem gives null ("absent"), a string JSON.parse rejects
\* ("corrupt"), or the JSON text of an array of records ("json").
Absent == [kind |-> "absent", items |-> <<>>]
Corrupt == [kind |-> "corrupt", items |-> <<>>]
Stringify(k, coll) == [kind |-> "json", items |-> [i \in 1..Len(coll) |-> ToJson(k, coll[i])]]
Parse(k, blob) == [i \in 1..Len(blob.items) |-> FromJson(k, blob.items[i])]

IdsOf(coll) == {coll[i].id : i \in 1..Len(coll)}

----------------------------------------------------------------------------
(* The mount effect of the hook and the load effect *)

NoPending == [perm |-> <<>>, meds |-> <<>>, journal |-> <<>>, files |-> <<>>, appts |-> <<>>]

\* useNotifications.ts:6-11: setPermission(Notification.permission) when the host
\* has the capability; setting the value the state already has changes nothing.
MountPermission(host, perm) ==
    IF host # "absent" /\ host # perm THEN <<host>> ELSE <<>>

\* One getItem + JSON.parse of the load effect: the collection to set, if any
Loaded(k, st) == IF st[k].kind = "json" THEN <<Parse(k, st[k])>> ELSE <<>>

\* App.tsx:122-149.  The four keys are read in order inside ONE try block: a
\* JSON.parse that throws skips every key after it; the set calls made before
\* the throw stay queued.
LoadEffect(st) ==
    LET t1 == st["medications"].kind = "corrupt"
        t2 == t1 \/ st["journalEntries"].kind = "corrupt"
        t3 == t2 \/ st["archivedFiles"].kind = "corrupt"
    IN  [perm    |-> <<>>,
         meds    |-> Loaded("medications", st),
         journal |-> IF t1 THEN <<>> ELSE Loaded("journalEntries", st),
         files   |-> IF t2 THEN <<>> ELSE Loaded("archivedFiles", st),
         appts   |-> IF t3 THEN <<>> ELSE Loaded("appointments", st)]

\* App.tsx:128-130: the banner asking for permission is raised by a load that
\* finds stored medications while permission is "default".
LoadBanner(perm, st) ==
    perm = "default" /\ st["medications"].kind = "json" /\ Len(st["medications"].items) > 0

\* The value a state variable has after the queued update, if any, is applied
Applied(upd, cur) == IF upd = <<>> THEN cur ELSE upd[1]

\* App.tsx:152-185: the save effect of collection k runs when its state was set
\* in this render (changed) and writes the serialized collection under k.
SaveEffectsSkippingAppointments(st, changed, meds, journal, files, appts) ==
    [k \in Keys |->
        IF k \notin changed \/ k = "appointments" THEN st[k]
        ELSE CASE k = "medications"    -> Stringify(k, meds)
               [] k = "journalEntries" -> Stringify(k, journal)
               [] k = "archivedFiles"  -> Stringify(k, files)]

SaveEffects(st, changed, meds, journal, files, appts) ==
    [k \in Keys |->
        IF k \notin changed THEN st[k]
        ELSE CASE k = "medications"    -> Stringify(k, meds)
               [] k = "journalEntries" -> Stringify(k, journal)
               [] k = "archivedFiles"  -> Stringify(k, files)
               [] k = "appointments"   -> Stringify(k, appts)]

\* App.tsx:192-199: tomorrow's local midnight plus 5 seconds
NextResetAtSameDay(t) == StartOfDay(t) + GraceSeconds * SecondMs

NextResetAt(t) == StartOfDay(t) + DayMs + GraceSeconds * SecondMs

\* App.tsx:227-245 / 368-400: the effect returns early unless permission is
\* granted; otherwise it creates the interval at the time of the render.
PollIntervalUnlessDenied(perm, t) ==
    [on |-> perm # "denied", since |-> IF perm # "denied" THEN t ELSE 0]

PollInterval(perm, t) == [on |-> perm = "granted", since |-> IF perm = "granted" THEN t ELSE 0]

NoTimer == [state |-> "none", due |-> 0]

\* App.tsx:45, 51, 55: the useState initial values of the three forms
EmptyFormState == [name |-> "", dosage |-> "", time |-> ""]
EmptyJournalEntry == ""
EmptyAppointmentForm == [date |-> 0, time |-> "", specialty |-> "", location |-> ""]

\* The files the <input type="file" multiple> can yield (App.tsx:797)
Files == {"scan.pdf", "photo.png"}
\* App.tsx:332-334: the tooltip handleCloseTooltip sets, which is also the
\* initial one (App.tsx:82-87); '' is the text of no sentence, about no name
handleCloseTooltip ==
    [medId |-> 0, content |-> [about |-> "", text |-> <<>>], isLoading |-> FALSE]

NoReaders == [f \in Files |-> "none"]
NoProbe == [fn |-> "none", rec |-> [id |-> 0], at |-> 0, done |-> FALSE, out |-> FALSE]
NoTick == [kind |-> "none", perm |-> "default", host |-> "default", matched |-> {},
           called |-> {}, shown |-> {}, threw |-> FALSE]

----------------------------------------------------------------------------
(* Sessions: opening the page, the renders of start-up, teardown, closing *)

HostStates == {"absent", "default", "granted", "denied"}

EmptyStore == [k \in Keys |-> Absent]

\* The state of a page that is not open: useState initial values (App.tsx:44-58,
\* useNotifications.ts:4), no timers.
InitWith(stores) ==
    /\ phase = "closed"
    /\ permission = "default"
    /\ medications = <<>>
    /\ notifiedIds = {}
    /\ showPermissionBanner = FALSE
    /\ journalEntries = <<>>
    /\ appointments = <<>>
    /\ archivedFiles = <<>>
    /\ pending = NoPending
    /\ store \in stores
    /\ hostPerm \in HostStates
    /\ clk = 1
    /\ medInterval = PollInterval("default", 0)
    /\ apptInterval = PollInterval("default", 0)
    /\ resetTimer = NoTimer
    /\ nextId = 0
    /\ tick = NoTick
    /\ calls = [i \in Ids |-> 0]
    /\ purged = {}
    /\ prevStore = EmptyStore
    /\ startup = 0
    /\ orphanFired = FALSE
    /\ formState = EmptyFormState
    /\ newJournalEntry = EmptyJournalEntry
    /\ appointmentForm = EmptyAppointmentForm
    /\ readers = NoReaders
    /\ elapsed = 0
    /\ tooltip = handleCloseTooltip
    /\ medInfoCache = {}
    /\ infoCalls = {}

Init == InitWith({EmptyStore}) /\ probe = NoProbe

\* The first render of App and the effects of that render, in hook order:
\* the hook's mount effect, the load effect, the four save effects (which write
\* the still empty collections), the daily reset effect, the two poll effects
\* (permission is still "default" in this render, so neither arms).
Open ==
    /\ phase = "closed"
    /\ LET pend == [LoadEffect(store) EXCEPT !.perm = MountPermission(hostPerm, "default")]
       IN  /\ pending' = pend
           /\ phase' = IF pend = NoPending THEN "running" ELSE "starting"
    /\ showPermissionBanner' = LoadBanner("default", store)
    /\ store' = SaveEffects(store, Keys, <<>>, <<>>, <<>>, <<>>)
    /\ resetTimer' = [state |-> "initial", due |-> NextResetAt(Now)]
    /\ medInterval' = PollInterval("default", Now)
    /\ apptInterval' = PollInterval("default", Now)
    /\ prevStore' = store
    /\ startup' = 1
    /\ tick' = NoTick
    /\ UNCHANGED <<permission, medications, notifiedIds, journalEntries, appointments,
                   archivedFiles, hostPerm, clk, nextId, calls, purged, orphanFired>>
    /\ UNCHANGED <<tooltip, medInfoCache, infoCalls, elapsed, probe, formState,
                   newJournalEntry, appointmentForm, readers>>

\* The keys whose collection a queued update sets
Changed(pend) ==
    {k \in Keys : \/ k = "medications" /\ pend.meds # <<>>
                  \/ k = "journalEntries" /\ pend.journal # <<>>
                  \/ k = "archivedFiles" /\ pend.files # <<>>
                  \/ k = "appointments" /\ pend.appts # <<>>}

\* The effects of a render in which permission changed from oldPerm to newPerm:
\* the load effect has [permission] as its dependency list (App.tsx:149) and runs
\* again, before the save effects of the same render.
ReloadOnPermission(oldPerm, newPerm, st) ==
    IF newPerm # oldPerm THEN LoadEffect(st) ELSE NoPending

\* The render that applies the updates queued by effects, and its effects.
Render ==
    /\ phase = "starting"
    /\ LET newPerm == Applied(pending.perm, permission)
           newMeds == Applied(pending.meds, medications)
           newJournal == Applied(pending.journal, journalEntries)
           newFiles == Applied(pending.files, archivedFiles)
           newAppts == Applied(pending.appts, appointments)
           pend == ReloadOnPermission(permission, newPerm, store)
       IN  /\ permission' = newPerm
           /\ medications' = newMeds
           /\ journalEntries' = newJournal
           /\ archivedFiles' = newFiles
           /\ appointments' = newAppts
           /\ pending' = pend
           /\ phase' = IF pend = NoPending THEN "running" ELSE "starting"
           /\ store' = SaveEffects(store, Changed(pending), newMeds, newJournal, newFiles, newAppts)
           /\ medInterval' = PollInterval(newPerm, Now)
           /\ apptInterval' = PollInterval(newPerm, Now)
    /\ startup' = IF startup > 0 THEN startup + 1 ELSE 0
    /\ tick' = NoTick
    /\ UNCHANGED <<notifiedIds, showPermissionBanner, hostPerm, clk, resetTimer, nextId,
                   calls, purged, prevStore, orphanFired>>
    /\ UNCHANGED <<tooltip, medInfoCache, infoCalls, elapsed, probe, formState,
                   newJournalEntry, appointmentForm, readers>>

\* App.tsx:244, 399: the cleanup of a poll effect clears the interval the
\* effect created, if the effect created one.
clearIntervalKeeping(iv) == iv

clearInterval(iv) == [on |-> FALSE, since |-> 0]

\* Unmounting App in a page that stays open: every effect's cleanup runs.  The
\* cleanup of the daily reset effect (App.tsx:213-214) clears the id returned by
\* the effect's own call of setDailyResetTimer; a timer created by the callback's
\* recursive call (App.tsx:207) has another id and stays pending.
Teardown ==
    /\ phase = "running"
    /\ phase' = "torndown"
    /\ permission' = "default"
    /\ medications' = <<>>
    /\ notifiedIds' = {}
    /\ showPermissionBanner' = FALSE
    /\ journalEntries' = <<>>
    /\ appointments' = <<>>
    /\ archivedFiles' = <<>>
    /\ medInterval' = clearInterval(medInterval)
    /\ apptInterval' = clearInterval(apptInterval)
    /\ resetTimer' = IF resetTimer.state = "initial" THEN NoTimer ELSE resetTimer
    /\ tick' = NoTick
    /\ calls' = [i \in Ids |-> 0]
    /\ startup' = 0
    /\ prevStore' = EmptyStore
    /\ UNCHANGED <<pending, store, hostPerm, clk, nextId, purged, orphanFired>>
    /\ formState' = EmptyFormState
    /\ newJournalEntry' = EmptyJournalEntry
    /\ appointmentForm' = EmptyAppointmentForm
    /\ readers' = NoReaders
    /\ tooltip' = handleCloseTooltip
    /\ medInfoCache' = {}
    /\ infoCalls' = {}
    /\ UNCHANGED <<elapsed, probe>>

\* Closing the page (or reloading it): the JavaScript context and all its timers
\* are gone; only localStorage and the host's permission stay.
Close ==
    /\ phase \in {"running", "torndown"}
    /\ phase' = "closed"
    /\ permission' = "default"
    /\ medications' = <<>>
    /\ notifiedIds' = {}
    /\ showPermissionBanner' = FALSE
    /\ journalEntries' = <<>>
    /\ appointments' = <<>>
    /\ archivedFiles' = <<>>
    /\ medInterval' = PollInterval("default", 0)
    /\ apptInterval' = PollInterval("default", 0)
    /\ resetTimer' = NoTimer
    /\ tick' = NoTick
    /\ calls' = [i \in Ids |-> 0]
    /\ startup' = 0
    /\ prevStore' = EmptyStore
    /\ orphanFired' = FALSE
    /\ purged' = {<<p[1], 1>> : p \in purged}
    /\ UNCHANGED <<pending, store, hostPerm, clk, nextId>>
    /\ formState' = EmptyFormState
    /\ newJournalEntry' = EmptyJournalEntry
    /\ appointmentForm' = EmptyAppointmentForm
    /\ readers' = NoReaders
    /\ tooltip' = handleCloseTooltip
    /\ medInfoCache' = {}
    /\ infoCalls' = {}
    /\ UNCHANGED <<elapsed, probe>>

\* Wall-clock time passes.  A timeout that is due is taken before time moves on.
Advance ==
    /\ phase # "starting"
    /\ clk < MaxClock
    /\ ~(resetTimer.state # "none" /\ Now >= resetTimer.due)
    /\ clk' = clk + 1
    /\ tick' = NoTick
    /\ UNCHANGED <<phase, permission, medications, notifiedIds, showPermissionBanner,
                   journalEntries, appointments, archivedFiles, pending, store, hostPerm,
                   medInterval, apptInterval, resetTimer, nextId, calls, purged, prevStore,
                   startup, orphanFired>>
    /\ UNCHANGED <<tooltip, medInfoCache, infoCalls, elapsed, probe, formState,
                   newJournalEntry, appointmentForm, readers>>

----------------------------------------------------------------------------
(* The notification gateway *)

\* useNotifications.ts:26-30.  With the hook's permission state granted the
\* Notification constructor is called: it throws (ctorThrows), or returns and the
\* host displays the notification when its own permission is granted and drops
\* it otherwise.  With any other state nothing is called.
showNotificationAnyButDenied(perm, host, ctorThrows) ==
    IF perm # "denied"
    THEN IF ctorThrows THEN "threw"
         ELSE IF host = "granted" THEN "shown" ELSE "dropped"
    ELSE "noop"

showNotification(perm, host, ctorThrows) ==
    IF perm = "granted"
    THEN IF ctorThrows THEN "threw"
         ELSE IF host = "granted" THEN "shown" ELSE "dropped"
    ELSE "noop"

\* useNotifications.ts:13-24.  Without the capability the function logs and
\* returns; otherwise the state becomes what the host answers.
requestPermissionResult(host, perm, answer) ==
    IF host = "absent" THEN perm ELSE answer

\* Notification.requestPermission(): the host asks the user only while its
\* permission is "default"; a decision already made is returned as it is.
HostAnswers(host) == IF host = "default" THEN PermissionStates ELSE {host}

\* The promise of requestPermission resolves: setPermission(status), the render,
\* and its effects (the load effect runs again when permission changed).
RequestPermission ==
    /\ phase = "running"
    /\ showPermissionBanner /\ permission = "default"    \* App.tsx:617-623
    /\ hostPerm # "absent"
    /\ \E answer \in HostAnswers(hostPerm) :
        LET newPerm == requestPermissionResult(hostPerm, permission, answer)
            pend == ReloadOnPermission(permission, newPerm, store)
        IN  /\ hostPerm' = answer
            /\ permission' = newPerm
            /\ pending' = pend
            /\ phase' = IF pend = NoPending THEN "running" ELSE "starting"
            /\ medInterval' = PollInterval(newPerm, Now)
            /\ apptInterval' = PollInterval(newPerm, Now)
    /\ showPermissionBanner' = FALSE
    /\ startup' = 0
    /\ prevStore' = EmptyStore
    /\ tick' = NoTick
    /\ UNCHANGED <<medications, notifiedIds, journalEntries, appointments, archivedFiles,
                   store, clk, resetTimer, nextId, calls, purged, orphanFired>>
    /\ UNCHANGED <<tooltip, medInfoCache, infoCalls, elapsed, probe, formState,
                   newJournalEntry, appointmentForm, readers>>

\* requestPermission on a host without the capability (useNotifications.ts:14-17)
RequestPermissionUnsupported ==
    /\ phase = "running"
    /\ showPermissionBanner /\ permission = "default"
    /\ hostPerm = "absent"
    /\ permission' = requestPermissionResult(hostPerm, permission, "granted")
    /\ showPermissionBanner' = FALSE
    /\ startup' = 0
    /\ prevStore' = EmptyStore
    /\ tick' = NoTick
    /\ UNCHANGED <<phase, medications, notifiedIds, journalEntries, appointments,
                   archivedFiles, pending, store, hostPerm, clk, medInterval, apptInterval,
                   resetTimer, nextId, calls, purged, orphanFired>>
    /\ UNCHANGED <<tooltip, medInfoCache, infoCalls, elapsed, probe, formState,
                   newJournalEntry, appointmentForm, readers>>

\* The user changes the permission in the host's settings, outside the page.
ExternalPermission ==
    /\ hostPerm # "absent"
    /\ \E p \in PermissionStates \ {hostPerm} : hostPerm' = p
    /\ tick' = NoTick
    /\ UNCHANGED <<phase, permission, medications, notifiedIds, showPermissionBanner,
                   journalEntries, appointments, archivedFiles, pending, store, clk,
                   medInterval, apptInterval, resetTimer, nextId, calls, purged, prevStore,
                   startup, orphanFired>>
    /\ UNCHANGED <<tooltip, medInfoCache, infoCalls, elapsed, probe, formState,
                   newJournalEntry, appointmentForm, readers>>

----------------------------------------------------------------------------
(* Handlers of a running session.  Commit is the render after a handler set  *)
(* newMeds / newNotified / newAppts, with the effects of that render: the    *)
(* save effects of the collections that were set, and both poll effects.     *)

Commit(newMeds, newNotified, newAppts, changed) ==
    /\ medications' = newMeds
    /\ notifiedIds' = newNotified
    /\ appointments' = newAppts
    /\ store' = SaveEffects(store, changed, newMeds, journalEntries, archivedFiles, newAppts)
    /\ medInterval' = PollInterval(permission, Now)
    /\ apptInterval' = PollInterval(permission, Now)
    /\ startup' = 0
    /\ prevStore' = EmptyStore
    /\ UNCHANGED <<phase, permission, journalEntries, archivedFiles, pending>>

\* App.tsx:269-271
addMedicationBanner(perm, banner) == IF perm = "default" THEN TRUE ELSE banner

\* App.tsx:7: an id no earlier call returned
generateId(n) == n + 1

\* The values an <input> of the medication form can hold at submit
NameInputs == {"", "ibu"}
DosageInputs == {"400mg"}
TimeInputs == {"", "09:00"}

\* The forms a user fills in completely or in part before submitting
MedicationForms ==
    {[name |-> n, dosage |-> d, time |-> t] : n \in NameInputs, d \in DosageInputs, t \in TimeInputs}

\* App.tsx:251-254
handleFormChange(form, field, value) == [form EXCEPT ![field] = value]

\* Typing into one field of the medication form; the state change renders
HandleFormChange ==
    /\ phase = "running"
    /\ \E form \in MedicationForms, field \in {"name", "dosage", "time"} :
        /\ form[field] # formState[field]
        /\ formState' = handleFormChange(formState, field, form[field])
    /\ Commit(medications, notifiedIds, appointments, {})
    /\ tick' = NoTick
    /\ UNCHANGED <<showPermissionBanner, hostPerm, clk, resetTimer, nextId, calls, purged,
                   orphanFired>>
    /\ UNCHANGED <<tooltip, medInfoCache, infoCalls, elapsed,
                   probe, newJournalEntry, appointmentForm, readers>>

\* App.tsx:256-273
addMedication(meds, id, name, dosage, time) ==
    IF name # "" /\ time # ""
    THEN Append(meds, [id |-> id, name |-> name, dosage |-> dosage, time |-> time,
                       isTaken |-> FALSE])
    ELSE meds

\* App.tsx:258, 267: the form is reset when the submit is accepted
addMedicationFormAlwaysReset(form) == EmptyFormState

addMedicationForm(form) == IF form.name # "" /\ form.time # "" THEN EmptyFormState ELSE form

\* A submit of the medication form that the guard of App.tsx:258 accepts.  The
\* form holds what was typed into it field by field; an empty form is filled in
\* and submitted in this step.
AddMedication ==
    /\ phase = "running"
    /\ nextId < MaxIds
    /\ \E form \in IF formState = EmptyFormState THEN MedicationForms ELSE {formState} :
        LET newMeds == addMedication(medications, generateId(nextId), form.name, form.dosage,
                                     form.time)
        IN  /\ newMeds # medications
            /\ Commit(newMeds, notifiedIds, appointments, {"medications"})
            /\ formState' = addMedicationForm(form)
    /\ nextId' = generateId(nextId)
    /\ showPermissionBanner' = addMedicationBanner(permission, showPermissionBanner)
    /\ tick' = [NoTick EXCEPT !.kind = "addMedication", !.matched = {generateId(nextId)}]
    /\ UNCHANGED <<hostPerm, clk, resetTimer, calls, purged, orphanFired>>
    /\ UNCHANGED <<tooltip, medInfoCache, infoCalls, elapsed,
                   probe, newJournalEntry, appointmentForm, readers>>

\* A submit of the medication form as it is that the guard of App.tsx:258
\* rejects: the handler returns without setting any state, so nothing renders.
AddMedicationRejected ==
    /\ phase = "running"
    /\ addMedication(medications, generateId(nextId), formState.name, formState.dosage,
                     formState.time) = medications
    /\ formState' = addMedicationForm(formState)
    /\ tick' = [NoTick EXCEPT !.kind = "rejectedMedication"]
    /\ UNCHANGED <<phase, permission, medications, notifiedIds, showPermissionBanner,
                   journalEntries, appointments, archivedFiles, pending, store, hostPerm, clk,
                   medInterval, apptInterval, resetTimer, nextId, calls, purged, prevStore,
                   startup, orphanFired>>
    /\ UNCHANGED <<tooltip, medInfoCache, infoCalls, elapsed,
                   probe, newJournalEntry, appointmentForm, readers>>

\* App.tsx:275-279
toggleMedicationTakenMarking(meds, id) ==
    [i \in 1..Len(meds) |-> IF meds[i].id = id THEN [meds[i] EXCEPT !.isTaken = TRUE] ELSE meds[i]]

toggleMedicationTaken(meds, id) ==
    [i \in 1..Len(meds) |->
        IF meds[i].id = id THEN [meds[i] EXCEPT !.isTaken = ~meds[i].isTaken] ELSE meds[i]]

ToggleMedicationTaken ==
    /\ phase = "running"
    /\ \E id \in IdsOf(medications) :
        /\ Commit(toggleMedicationTaken(medications, id), notifiedIds, appointments,
                  {"medications"})
        /\ tick' = [NoTick EXCEPT !.kind = "toggle", !.matched = {id}]
    /\ UNCHANGED <<showPermissionBanner, hostPerm, clk, resetTimer, nextId, calls, purged,
                   orphanFired>>
    /\ UNCHANGED <<tooltip, medInfoCache, infoCalls, elapsed, probe, formState,
                   newJournalEntry, appointmentForm, readers>>

\* App.tsx:281-286: the medication is filtered out; notifiedIds is not touched
deleteMedicationKeepsAll(meds, id) == SelectSeq(meds, LAMBDA m : m.id # id \/ m.id = id)

deleteMedication(meds, id) == SelectSeq(meds, LAMBDA m : m.id # id)
deleteMedicationNotified(notified, id) == notified

DeleteMedication ==
    /\ phase = "running"
    /\ \E id \in Ids :
        /\ Commit(deleteMedication(medications, id), deleteMedicationNotified(notifiedIds, id),
                  appointments, {"medications"})
        /\ purged' = IF id \in IdsOf(medications) /\ id \in notifiedIds
                      THEN purged \cup {<<id, 0>>} ELSE purged
        /\ tick' = [NoTick EXCEPT !.kind = "deleteMedication", !.matched = {id}]
        /\ tooltip' = IF tooltip.medId = id THEN handleCloseTooltip ELSE tooltip
    /\ UNCHANGED <<showPermissionBanner, hostPerm, clk, resetTimer, nextId, calls, orphanFired>>
    /\ UNCHANGED <<medInfoCache, infoCalls, elapsed, probe, formState, newJournalEntry,
                   appointmentForm, readers>>

----------------------------------------------------------------------------
(* Appointments *)

DateInputs == {0, 2}               \* the day the <input type="date"> names; 0 stands for ""
ApptTimeInputs == {"", "09:00"}
SpecialtyInputs == {"", "cardio"}
LocationInputs == {"", "clinic"}

AppointmentForms ==
    {[date |-> d, time |-> t, specialty |-> s, location |-> l] :
        d \in DateInputs, t \in ApptTimeInputs, s \in SpecialtyInputs, l \in LocationInputs}

\* App.tsx:403-406
handleAppointmentFormChange(form, field, value) == [form EXCEPT ![field] = value]

\* Typing into one field of the appointment form; the state change renders
HandleAppointmentFormChange ==
    /\ phase = "running"
    /\ \E form \in AppointmentForms, field \in {"date", "time", "specialty", "location"} :
        /\ form[field] # appointmentForm[field]
        /\ appointmentForm' = handleAppointmentFormChange(appointmentForm, field, form[field])
    /\ Commit(medications, notifiedIds, appointments, {})
    /\ tick' = NoTick
    /\ UNCHANGED <<showPermissionBanner, hostPerm, clk, resetTimer, nextId, calls, purged,
                   orphanFired>>
    /\ UNCHANGED <<tooltip, medInfoCache, infoCalls, elapsed,
                   probe, formState, newJournalEntry, readers>>

\* App.tsx:408-420
addAppointment(appts, id, date, time, specialty, location) ==
    IF date # 0 /\ time # "" /\ specialty # "" /\ location # ""
    THEN Append(appts, [id |-> id, date |-> date, time |-> time, specialty |-> specialty,
                        location |-> location, notified |-> FALSE])
    ELSE appts

\* App.tsx:411, 418: the form is reset when the submit is accepted
addAppointmentForm(form) ==
    IF form.date # 0 /\ form.time # "" /\ form.specialty # "" /\ form.location # ""
    THEN EmptyAppointmentForm ELSE form

\* A submit of the appointment form that the guard of App.tsx:411 accepts
AddAppointment ==
    /\ phase = "running"
    /\ nextId < MaxIds
    /\ \E form \in IF appointmentForm = EmptyAppointmentForm THEN AppointmentForms
                   ELSE {appointmentForm} :
        LET newAppts == addAppointment(appointments, generateId(nextId), form.date, form.time,
                                       form.specialty, form.location)
        IN  /\ newAppts # appointments
            /\ Commit(medications, notifiedIds, newAppts, {"appointments"})
            /\ appointmentForm' = addAppointmentForm(form)
    /\ nextId' = generateId(nextId)
    /\ tick' = [NoTick EXCEPT !.kind = "addAppointment", !.matched = {generateId(nextId)}]
    /\ UNCHANGED <<showPermissionBanner, hostPerm, clk, resetTimer, calls, purged, orphanFired>>
    /\ UNCHANGED <<tooltip, medInfoCache, infoCalls, elapsed,
                   probe, formState, newJournalEntry, readers>>

\* A submit of the appointment form as it is that the guard of App.tsx:411 rejects
AddAppointmentRejected ==
    /\ phase = "running"
    /\ addAppointment(appointments, generateId(nextId), appointmentForm.date,
                      appointmentForm.time, appointmentForm.specialty,
                      appointmentForm.location) = appointments
    /\ appointmentForm' = addAppointmentForm(appointmentForm)
    /\ tick' = [NoTick EXCEPT !.kind = "rejectedAppointment"]
    /\ UNCHANGED <<phase, permission, medications, notifiedIds, showPermissionBanner,
                   journalEntries, appointments, archivedFiles, pending, store, hostPerm, clk,
                   medInterval, apptInterval, resetTimer, nextId, calls, purged, prevStore,
                   startup, orphanFired>>
    /\ UNCHANGED <<tooltip, medInfoCache, infoCalls, elapsed,
                   probe, formState, newJournalEntry, readers>>

\* App.tsx:422-424
deleteAppointment(appts, id) == SelectSeq(appts, LAMBDA a : a.id # id)

DeleteAppointment ==
    /\ phase = "running"
    /\ \E id \in Ids :
        /\ Commit(medications, notifiedIds, deleteAppointment(appointments, id),
                  {"appointments"})
        /\ tick' = [NoTick EXCEPT !.kind = "deleteAppointment", !.matched = {id}]
    /\ UNCHANGED <<showPermissionBanner, hostPerm, clk, resetTimer, nextId, calls, purged,
                   orphanFired>>
    /\ UNCHANGED <<tooltip, medInfoCache, infoCalls, elapsed, probe, formState,
                   newJournalEntry, appointmentForm, readers>>

----------------------------------------------------------------------------
(* Journal and archive.  CommitArchive is the render after a handler set     *)
(* newJournal / newFiles, with the effects of that render.                   *)

CommitArchive(newJournal, newFiles, changed) ==
    /\ journalEntries' = newJournal
    /\ archivedFiles' = newFiles
    /\ store' = SaveEffects(store, changed, medications, newJournal, newFiles, appointments)
    /\ medInterval' = PollInterval(permission, Now)
    /\ apptInterval' = PollInterval(permission, Now)
    /\ startup' = 0
    /\ prevStore' = EmptyStore
    /\ UNCHANGED <<phase, permission, medications, notifiedIds, appointments, pending>>

\* The texts the journal <textarea> can hold at submit
JournalInputs == {"", " ", "fine"}

\* String.prototype.trim on those texts
trim(text) == IF text = " " THEN "" ELSE text

\* App.tsx:701: typing into the journal form; the state change renders
SetNewJournalEntry ==
    /\ phase = "running"
    /\ \E text \in JournalInputs :
        /\ text # newJournalEntry
        /\ newJournalEntry' = text
    /\ CommitArchive(journalEntries, archivedFiles, {})
    /\ tick' = NoTick
    /\ UNCHANGED <<showPermissionBanner, hostPerm, clk, resetTimer, nextId, calls, purged,
                   orphanFired>>
    /\ UNCHANGED <<tooltip, medInfoCache, infoCalls, elapsed,
                   probe, formState, appointmentForm, readers>>

\* App.tsx:348-359: the new entry is put in front of the entries there are
addJournalEntryAppending(entries, id, date, content) ==
    IF trim(content) # ""
    THEN Append(entries, [id |-> id, date |-> date, content |-> content])
    ELSE entries

addJournalEntry(entries, id, date, content) ==
    IF trim(content) # ""
    THEN <<[id |-> id, date |-> date, content |-> content]>> \o entries
    ELSE entries

\* App.tsx:350, 357: the text is reset when the submit is accepted
addJournalEntryForm(text) == IF trim(text) # "" THEN EmptyJournalEntry ELSE text

\* A submit of the journal form that the guard of App.tsx:350 accepts
AddJournalEntry ==
    /\ phase = "running"
    /\ nextId < MaxIds
    /\ \E text \in IF newJournalEntry = EmptyJournalEntry THEN JournalInputs
                   ELSE {newJournalEntry} :
        LET newJournal == addJournalEntry(journalEntries, generateId(nextId), Now, text)
        IN  /\ newJournal # journalEntries
            /\ CommitArchive(newJournal, archivedFiles, {"journalEntries"})
            /\ newJournalEntry' = addJournalEntryForm(text)
    /\ nextId' = generateId(nextId)
    /\ tick' = [NoTick EXCEPT !.kind = "addJournalEntry", !.matched = {generateId(nextId)}]
    /\ UNCHANGED <<showPermissionBanner, hostPerm, clk, resetTimer, calls, purged, orphanFired>>
    /\ UNCHANGED <<tooltip, medInfoCache, infoCalls, elapsed,
                   probe, formState, appointmentForm, readers>>

\* A submit of the journal form as it is that the guard of App.tsx:350 rejects
AddJournalEntryRejected ==
    /\ phase = "running"
    /\ addJournalEntry(journalEntries, generateId(nextId), Now, newJournalEntry) = journalEntries
    /\ newJournalEntry' = addJournalEntryForm(newJournalEntry)
    /\ tick' = [NoTick EXCEPT !.kind = "rejectedJournalEntry"]
    /\ UNCHANGED <<phase, permission, medications, notifiedIds, showPermissionBanner,
                   journalEntries, appointments, archivedFiles, pending, store, hostPerm, clk,
                   medInterval, apptInterval, resetTimer, nextId, calls, purged, prevStore,
                   startup, orphanFired>>
    /\ UNCHANGED <<tooltip, medInfoCache, infoCalls, elapsed,
                   probe, formState, appointmentForm, readers>>

\* file.type and the result of readAsDataURL for the files of the model
MimeType(f) == IF f = "scan.pdf" THEN "application/pdf" ELSE "image/png"
DataUrl(f) == IF f = "scan.pdf" THEN "data:application/pdf;base64,JVBE"
              ELSE "data:image/png;base64,iVBO"

\* App.tsx:442-464: every selected file gets a FileReader of its own and
\* readAsDataURL is started; the handler sets no state.  A file whose read is
\* in flight is not selected again.
handleFileChange(rd, selected) == [f \in Files |-> IF f \in selected THEN "loading" ELSE rd[f]]

HandleFileChange ==
    /\ phase = "running"
    /\ \E selected \in SUBSET {f \in Files : readers[f] # "loading"} :
        /\ selected # {}
        /\ readers' = handleFileChange(readers, selected)
    /\ tick' = NoTick
    /\ UNCHANGED <<phase, permission, medications, notifiedIds, showPermissionBanner,
                   journalEntries, appointments, archivedFiles, pending, store, hostPerm, clk,
                   medInterval, apptInterval, resetTimer, nextId, calls, purged, prevStore,
                   startup, orphanFired>>
    /\ UNCHANGED <<tooltip, medInfoCache, infoCalls, elapsed,
                   probe, formState, newJournalEntry, appointmentForm>>

\* App.tsx:451-459: reader.onload of file f appends the record of f
readerOnload(files, id, f) ==
    Append(files, [id |-> id, name |-> f, mimeType |-> MimeType(f), dataUrl |-> DataUrl(f)])

ReaderLoad ==
    /\ phase = "running"
    /\ nextId < MaxIds
    /\ \E f \in Files :
        /\ readers[f] = "loading"
        /\ readers' = [readers EXCEPT ![f] = "loaded"]
        /\ CommitArchive(journalEntries, readerOnload(archivedFiles, generateId(nextId), f),
                         {"archivedFiles"})
    /\ nextId' = generateId(nextId)
    /\ tick' = [NoTick EXCEPT !.kind = "addFile", !.matched = {generateId(nextId)}]
    /\ UNCHANGED <<showPermissionBanner, hostPerm, clk, resetTimer, calls, purged, orphanFired>>
    /\ UNCHANGED <<tooltip, medInfoCache, infoCalls, elapsed,
                   probe, formState, newJournalEntry, appointmentForm>>

\* The read of file f fails: the reader has no onerror handler (App.tsx:450-460),
\* so nothing in the application runs.  The other readers are not affected.
readerErrorAbortingAll(rd, f) == [g \in Files |-> IF rd[g] = "loading" THEN "failed" ELSE rd[g]]

readerError(rd, f) == [rd EXCEPT ![f] = "failed"]

ReaderError ==
    /\ phase = "running"
    /\ \E f \in Files :
        /\ readers[f] = "loading"
        /\ readers' = readerError(readers, f)
    /\ tick' = NoTick
    /\ UNCHANGED <<phase, permission, medications, notifiedIds, showPermissionBanner,
                   journalEntries, appointments, archivedFiles, pending, store, hostPerm, clk,
                   medInterval, apptInterval, resetTimer, nextId, calls, purged, prevStore,
                   startup, orphanFired>>
    /\ UNCHANGED <<tooltip, medInfoCache, infoCalls, elapsed,
                   probe, formState, newJournalEntry, appointmentForm>>

\* App.tsx:466-468
deleteFileKeepsAll(files, id) == files

deleteFile(files, id) == SelectSeq(files, LAMBDA f : f.id # id)

DeleteFile ==
    /\ phase = "running"
    /\ \E id \in Ids :
        /\ CommitArchive(journalEntries, deleteFile(archivedFiles, id), {"archivedFiles"})
        /\ tick' = [NoTick EXCEPT !.kind = "deleteFile", !.matched = {id}]
    /\ UNCHANGED <<showPermissionBanner, hostPerm, clk, resetTimer, nextId, calls, purged,
                   orphanFired>>
    /\ UNCHANGED <<tooltip, medInfoCache, infoCalls, elapsed, probe, formState,
                   newJournalEntry, appointmentForm, readers>>

----------------------------------------------------------------------------
(* The two poll loops *)

\* App.tsx:217-224
isMedicationDueAtOrAfter(med, t) ==
    IF med.isTaken THEN FALSE
    ELSE t >= StartOfDay(t) + Hours(med.time) * HourMs + Minutes(med.time) * MinuteMs

isMedicationDue(med, t) ==
    IF med.isTaken THEN FALSE
    ELSE t > StartOfDay(t) + Hours(med.time) * HourMs + Minutes(med.time) * MinuteMs

\* App.tsx:231
dueMedsIgnoringNotified(meds, notified, t) ==
    SelectSeq(meds, LAMBDA m : isMedicationDue(m, t))

dueMeds(meds, notified, t) ==
    SelectSeq(meds, LAMBDA m : isMedicationDue(m, t) /\ m.id \notin notified)

\* App.tsx:375-379
isUpcomingIgnoringNotified(appt, t) ==
    LET apptDateTime == DateTime(appt.date, appt.time)
    IN  apptDateTime > t /\ apptDateTime <= t + WindowMs

isUpcomingInsideWindow(appt, t) ==
    IF appt.notified THEN FALSE
    ELSE LET apptDateTime == DateTime(appt.date, appt.time)
         IN  apptDateTime > t /\ apptDateTime < t + WindowMs

isUpcoming(appt, t) ==
    IF appt.notified THEN FALSE
    ELSE LET apptDateTime == DateTime(appt.date, appt.time)
         IN  apptDateTime > t /\ apptDateTime <= t + WindowMs

upcomingAppointments(appts, t) == SelectSeq(appts, LAMBDA a : isUpcoming(a, t))

\* App.tsx:389-395: the functional update of the appointment tick
markNotified(prev, upcoming) ==
    [i \in 1..Len(prev) |->
        IF prev[i].id \in IdsOf(upcoming) THEN [prev[i] EXCEPT !.notified = TRUE] ELSE prev[i]]

\* The ids among `ids` for which a call of showNotification has the outcome
Outcome(ids, perm, host, ctorThrows, outcome) ==
    IF showNotification(perm, host, ctorThrows) = outcome THEN ids ELSE {}

\* matched.forEach(showNotification) where the throwAt-th call throws (0: none
\* does): the ids passed to showNotification, the ids the host displayed.
Called(matched, throwAt) ==
    IF throwAt = 0 THEN IdsOf(matched) ELSE IdsOf(SubSeq(matched, 1, throwAt))
Shown(matched, throwAt, perm, host) ==
    Outcome(IF throwAt = 0 THEN IdsOf(matched) ELSE IdsOf(SubSeq(matched, 1, throwAt - 1)),
            perm, host, FALSE, "shown")

\* The history of one tick
TickRecord(kind, matched, throwAt) ==
    [kind |-> kind, perm |-> permission, host |-> hostPerm, matched |-> IdsOf(matched),
     called |-> Called(matched, throwAt),
     shown |-> Shown(matched, throwAt, permission, hostPerm), threw |-> throwAt # 0]

Count(c, ids) == [i \in Ids |-> IF i \in ids /\ c[i] < MaxCalls THEN c[i] + 1 ELSE c[i]]

\* App.tsx:230-242: one run of the medication interval's callback.  An exception
\* of the Notification constructor leaves forEach and the callback, so line 240
\* is not reached.
medTickNotified(notified, matched, throwAt) ==
    IF Len(matched) > 0 /\ throwAt = 0 THEN notified \cup IdsOf(matched) ELSE notified

MedTick ==
    /\ phase = "running"
    /\ medInterval.on
    /\ Now - medInterval.since >= P1
    /\ LET matched == dueMeds(medications, notifiedIds, Now)
       IN  \E throwAt \in 0..Len(matched) :
            /\ tick' = TickRecord("med", matched, throwAt)
            /\ calls' = Count(calls, Called(matched, throwAt))
            /\ IF Len(matched) > 0 /\ throwAt = 0
               THEN Commit(medications, medTickNotified(notifiedIds, matched, throwAt),
                           appointments, {})
               ELSE /\ medInterval' = [medInterval EXCEPT !.since = Now]
                    /\ startup' = 0
                    /\ prevStore' = EmptyStore
                    /\ UNCHANGED <<phase, permission, medications, notifiedIds, journalEntries,
                                   appointments, archivedFiles, pending, store, apptInterval>>
    /\ UNCHANGED <<showPermissionBanner, hostPerm, clk, resetTimer, nextId, purged, orphanFired>>
    /\ UNCHANGED <<tooltip, medInfoCache, infoCalls, elapsed, probe, formState,
                   newJournalEntry, appointmentForm, readers>>

\* App.tsx:371-397: one run of the appointment interval's callback
apptTickAppointments(prev, matched, throwAt) ==
    IF Len(matched) > 0 /\ throwAt = 0 THEN markNotified(prev, matched) ELSE prev

ApptTick ==
    /\ phase = "running"
    /\ apptInterval.on
    /\ Now - apptInterval.since >= P2
    /\ LET matched == upcomingAppointments(appointments, Now)
       IN  \E throwAt \in 0..Len(matched) :
            /\ tick' = TickRecord("appt", matched, throwAt)
            /\ IF Len(matched) > 0 /\ throwAt = 0
               THEN Commit(medications, notifiedIds,
                           apptTickAppointments(appointments, matched, throwAt),
                           {"appointments"})
               ELSE /\ apptInterval' = [apptInterval EXCEPT !.since = Now]
                    /\ startup' = 0
                    /\ prevStore' = EmptyStore
                    /\ UNCHANGED <<phase, permission, medications, notifiedIds, journalEntries,
                                   appointments, archivedFiles, pending, store, medInterval>>
    /\ UNCHANGED <<showPermissionBanner, hostPerm, clk, resetTimer, nextId, calls, purged,
                   orphanFired>>
    /\ UNCHANGED <<tooltip, medInfoCache, infoCalls, elapsed, probe, formState,
                   newJournalEntry, appointmentForm, readers>>

----------------------------------------------------------------------------
(* The daily reset *)

\* App.tsx:203-205
resetTakenToggling(meds) == [i \in 1..Len(meds) |-> [meds[i] EXCEPT !.isTaken = ~@]]

resetTaken(meds) == [i \in 1..Len(meds) |-> [meds[i] EXCEPT !.isTaken = FALSE]]

\* App.tsx:206
resetNotifiedKeeping(notified) == notified

resetNotified(notified) == {}

\* App.tsx:201-208: the callback has no call of setAppointments
resetAppointmentsClearingFlags(appts) ==
    [i \in 1..Len(appts) |-> [appts[i] EXCEPT !.notified = FALSE]]

resetAppointments(appts) == appts

\* The ids a reset has something to clear for: taken medications and notified ids
Cleared(meds, notified) == {meds[i].id : i \in {j \in 1..Len(meds) : meds[j].isTaken}} \cup notified

\* App.tsx:201-208: the timeout's callback in a mounted App: both updates, the
\* render, and the recursive setDailyResetTimer, whose timer id is dropped.
ResetFire ==
    /\ phase = "running"
    /\ resetTimer.state # "none"
    /\ Now >= resetTimer.due
    /\ Commit(resetTaken(medications), resetNotified(notifiedIds),
              resetAppointments(appointments), {"medications"})
    /\ resetTimer' = [state |-> "rescheduled", due |-> NextResetAt(Now)]
    /\ calls' = [i \in Ids |-> 0]
    /\ tick' = [NoTick EXCEPT !.kind = "reset", !.matched = Cleared(medications, notifiedIds)]
    /\ UNCHANGED <<showPermissionBanner, hostPerm, clk, nextId, purged, orphanFired>>
    /\ UNCHANGED <<tooltip, medInfoCache, infoCalls, elapsed, probe, formState,
                   newJournalEntry, appointmentForm, readers>>

\* The same callback after App was unmounted: the state setters of an unmounted
\* component do nothing, the recursive call still schedules the next timeout.
OrphanResetFire ==
    /\ phase = "torndown"
    /\ resetTimer.state # "none"
    /\ Now >= resetTimer.due
    /\ resetTimer' = [state |-> "rescheduled", due |-> NextResetAt(Now)]
    /\ orphanFired' = TRUE
    /\ tick' = NoTick
    /\ UNCHANGED <<phase, permission, medications, notifiedIds, showPermissionBanner,
                   journalEntries, appointments, archivedFiles, pending, store, hostPerm,
                   clk, medInterval, apptInterval, nextId, calls, purged, prevStore, startup>>
    /\ UNCHANGED <<tooltip, medInfoCache, infoCalls, elapsed, probe, formState,
                   newJournalEntry, appointmentForm, readers>>

\* A render caused by state that is not modelled (typing in a form, switching
\* the tab): both poll effects run again and re-create their intervals.
Rerender ==
    /\ phase = "running"
    /\ Commit(medications, notifiedIds, appointments, {})
    /\ tick' = NoTick
    /\ UNCHANGED <<showPermissionBanner, hostPerm, clk, resetTimer, nextId, calls, purged,
                   orphanFired>>
    /\ UNCHANGED <<tooltip, medInfoCache, infoCalls, elapsed, probe, formState,
                   newJournalEntry, appointmentForm, readers>>

\* A consumer of the hook calls showNotification directly in the current render
\* (the function is part of the hook's interface whatever the permission state).
\* The call is recorded under id 0.
ShowNotificationCall ==
    /\ phase = "running"
    /\ \E ctorThrows \in BOOLEAN :
        tick' = [kind |-> "call", perm |-> permission, host |-> hostPerm, matched |-> {},
                 called |-> {0},
                 shown |-> Outcome({0}, permission, hostPerm, ctorThrows, "shown"),
                 threw |-> Outcome({0}, permission, hostPerm, ctorThrows, "threw") # {}]
    /\ startup' = 0
    /\ prevStore' = EmptyStore
    /\ UNCHANGED <<phase, permission, medications, notifiedIds, showPermissionBanner,
                   journalEntries, appointments, archivedFiles, pending, store, hostPerm, clk,
                   medInterval, apptInterval, resetTimer, nextId, calls, purged, orphanFired>>
    /\ UNCHANGED <<tooltip, medInfoCache, infoCalls, elapsed, probe, formState,
                   newJournalEntry, appointmentForm, readers>>

\* The collection held in memory for a key
Mem(k) ==
    CASE k = "medications" -> medications
      [] k = "journalEntries" -> journalEntries
      [] k = "archivedFiles" -> archivedFiles
      [] k = "appointments" -> appointments

\* The session has finished starting up and no handler has run in it
StartupDone == startup > 0 /\ phase = "running"

\* The load effect of the mount has run and the render applying its updates is done
LoadCommitted == startup = 2 \/ (startup = 1 /\ phase = "running")

----------------------------------------------------------------------------
(* Specifications *)

\* The scheduler: sessions of one page with its mutators, poll loops and reset
Next ==
    \/ Open
    \/ Render
    \/ Close
    \/ Advance
    \/ RequestPermission
    \/ RequestPermissionUnsupported
    \/ AddMedication
    \/ ToggleMedicationTaken
    \/ DeleteMedication
    \/ AddAppointment
    \/ DeleteAppointment
    \/ MedTick
    \/ ApptTick
    \/ ResetFire
    \/ Rerender

Spec == Init /\ [][Next]_vars

\* The gateway: the hook under every permission state of hook and host
NextGateway ==
    \/ Open
    \/ Render
    \/ Close
    \/ Advance
    \/ RequestPermission
    \/ RequestPermissionUnsupported
    \/ ExternalPermission
    \/ AddMedication
    \/ MedTick
    \/ ShowNotificationCall

SpecGateway == Init /\ [][NextGateway]_vars

\* Teardown: a session that is unmounted while the page stays open
NextTeardown ==
    \/ Open
    \/ Render
    \/ Close
    \/ Advance
    \/ AddMedication
    \/ ToggleMedicationTaken
    \/ AddAppointment
    \/ MedTick
    \/ ApptTick
    \/ ResetFire
    \/ Teardown
    \/ OrphanResetFire

SpecTeardown == Init /\ [][NextTeardown]_vars

\* Loading: a page opened on a store that holds, under each key, nothing, a blob
\* JSON.parse rejects, or a collection an earlier session saved
SampleBlob(k) ==
    CASE k = "medications" ->
            Stringify(k, <<[id |-> 1, name |-> "ibu", dosage |-> "400mg", time |-> "09:00",
                            isTaken |-> TRUE]>>)
      [] k = "journalEntries" ->
            Stringify(k, <<[id |-> 2, date |-> Clock(0), content |-> "fine"]>>)
      [] k = "archivedFiles" ->
            Stringify(k, <<[id |-> 3, name |-> "rx.pdf", mimeType |-> "application/pdf",
                            dataUrl |-> "data:application/pdf;base64,AA"]>>)
      [] k = "appointments" ->
            Stringify(k, <<[id |-> 4, date |-> 2, time |-> "09:00", specialty |-> "cardio",
                            location |-> "clinic", notified |-> TRUE]>>)

SampleStores == [Keys -> {"absent", "corrupt", "json"}]

StoreOf(kinds) ==
    [k \in Keys |-> CASE kinds[k] = "absent" -> Absent
                      [] kinds[k] = "corrupt" -> Corrupt
                      [] kinds[k] = "json" -> SampleBlob(k)]

InitLoad == InitWith({StoreOf(kinds) : kinds \in SampleStores}) /\ probe = NoProbe

NextLoad ==
    \/ Open
    \/ Render
    \/ Close
    \/ RequestPermission
    \/ RequestPermissionUnsupported

SpecLoad == InitLoad /\ [][NextLoad]_vars

\* The evaluators: isMedicationDue and the upcoming filter applied to one
\* record at one instant
ProbeTimes == {"00:00", "09:00", "09:59", "10:00", "10:01", "23:59"}

ProbeDays == 1..MaxDay

DueOffsets ==
    {0, 9 * HourMs - SecondMs, 9 * HourMs, 9 * HourMs + 1, 9 * HourMs + SecondMs,
     10 * HourMs, DayMs - 1}

UpcomingOffsets == {9 * HourMs + SecondMs, 10 * HourMs, 10 * HourMs + MinuteMs}

ProbeMeds ==
    {[id |-> 1, name |-> "ibu", dosage |-> "400mg", time |-> t, isTaken |-> b] :
        t \in ProbeTimes, b \in BOOLEAN}

ProbeAppts ==
    {[id |-> 1, date |-> d, time |-> t, specialty |-> "cardio", location |-> "clinic",
      notified |-> b] : d \in 1..(MaxDay + 1), t \in ProbeTimes, b \in BOOLEAN}

ProbeInputs ==
    {[fn |-> "isMedicationDue", rec |-> m, at |-> d * DayMs + o, done |-> FALSE, out |-> FALSE] :
        m \in ProbeMeds, d \in ProbeDays, o \in DueOffsets}
    \cup
    {[fn |-> "isUpcoming", rec |-> a, at |-> d * DayMs + o, done |-> FALSE, out |-> FALSE] :
        a \in ProbeAppts, d \in ProbeDays, o \in UpcomingOffsets}

InitEval == InitWith({EmptyStore}) /\ hostPerm = "default" /\ probe \in ProbeInputs

EvalDue ==
    /\ probe.fn = "isMedicationDue"
    /\ ~probe.done
    /\ probe' = [probe EXCEPT !.done = TRUE, !.out = isMedicationDue(probe.rec, probe.at)]
    /\ UNCHANGED <<phase, permission, medications, notifiedIds, showPermissionBanner,
                   journalEntries, appointments, archivedFiles, pending, store, hostPerm, clk,
                   medInterval, apptInterval, resetTimer, nextId, tick, calls, purged,
                   prevStore, startup, orphanFired>>
    /\ UNCHANGED <<tooltip, medInfoCache, infoCalls, elapsed,
                   formState, newJournalEntry, appointmentForm, readers>>

EvalUpcoming ==
    /\ probe.fn = "isUpcoming"
    /\ ~probe.done
    /\ probe' = [probe EXCEPT !.done = TRUE, !.out = isUpcoming(probe.rec, probe.at)]
    /\ UNCHANGED <<phase, permission, medications, notifiedIds, showPermissionBanner,
                   journalEntries, appointments, archivedFiles, pending, store, hostPerm, clk,
                   medInterval, apptInterval, resetTimer, nextId, tick, calls, purged,
                   prevStore, startup, orphanFired>>
    /\ UNCHANGED <<tooltip, medInfoCache, infoCalls, elapsed,
                   formState, newJournalEntry, appointmentForm, readers>>

NextEval ==
    \/ EvalDue
    \/ EvalUpcoming

SpecEval == InitEval /\ [][NextEval]_vars

----------------------------------------------------------------------------
(* The medication poll loop second by second: a running session with one    *)
(* due medication, in which the user answers the permission banner at once, *)
(* types into the journal form, and other state changes render.             *)

\* The state after Open and AddMedication at Clock(1), in a host that has not
\* been asked for the permission: the medication is due and no interval runs
InitPoll ==
    /\ phase = "running"
    /\ permission = "default"
    /\ hostPerm = "default"
    /\ medications = addMedication(<<>>, generateId(0), "ibu", "400mg", "09:00")
    /\ notifiedIds = {}
    /\ showPermissionBanner = addMedicationBanner("default", FALSE)
    /\ journalEntries = <<>>
    /\ appointments = <<>>
    /\ archivedFiles = <<>>
    /\ pending = NoPending
    /\ store = SaveEffects(EmptyStore, Keys, medications, <<>>, <<>>, <<>>)
    /\ clk = 1
    /\ elapsed = 0
    /\ tooltip = handleCloseTooltip
    /\ medInfoCache = {}
    /\ infoCalls = {}
    /\ medInterval = PollInterval("default", Clock(1))
    /\ apptInterval = PollInterval("default", Clock(1))
    /\ resetTimer = [state |-> "initial", due |-> NextResetAt(Clock(1))]
    /\ nextId = generateId(0)
    /\ tick = [NoTick EXCEPT !.kind = "addMedication", !.matched = {generateId(0)}]
    /\ calls = [i \in Ids |-> 0]
    /\ purged = {}
    /\ prevStore = EmptyStore
    /\ startup = 0
    /\ orphanFired = FALSE
    /\ formState = EmptyFormState
    /\ newJournalEntry = EmptyJournalEntry
    /\ appointmentForm = EmptyAppointmentForm
    /\ readers = NoReaders
    /\ probe = NoProbe

\* Ten seconds pass.  An interval whose period has passed runs its callback
\* before time moves on (App.tsx:242, 397).
AdvanceSeconds ==
    /\ phase = "running"
    /\ elapsed < MaxSteps * 10 * SecondMs
    /\ ~(medInterval.on /\ Now - medInterval.since >= P1)
    /\ ~(apptInterval.on /\ Now - apptInterval.since >= P2)
    /\ elapsed' = elapsed + 10 * SecondMs
    /\ UNCHANGED <<tooltip, medInfoCache, infoCalls>>
    /\ tick' = NoTick
    /\ UNCHANGED <<phase, permission, medications, notifiedIds, showPermissionBanner,
                   journalEntries, appointments, archivedFiles, pending, store, hostPerm, clk,
                   medInterval, apptInterval, resetTimer, nextId, calls, purged, prevStore,
                   startup, orphanFired>>
    /\ UNCHANGED <<probe, formState, newJournalEntry, appointmentForm, readers>>

\* A render that falls on the very instant a callback is due is left out: the
\* callback is taken to run first.
NextPoll ==
    \/ elapsed = 0 /\ RequestPermission
    \/ Render
    \/ AdvanceSeconds
    \/ MedTick
    \/ Now - medInterval.since < P1 /\ Rerender
    \/ Now - medInterval.since < P1 /\ SetNewJournalEntry

SpecPoll == InitPoll /\ [][NextPoll]_vars

----------------------------------------------------------------------------
(* Sessions over two local days in which the user marks medications as      *)
(* taken on the first day only: every taken flag in a later state was set   *)
(* on the first day.                                                        *)

NextDays ==
    \/ Open
    \/ Render
    \/ Close
    \/ Advance
    \/ RequestPermission
    \/ AddMedication
    \/ StartOfDay(Now) = StartOfDay(Clock(0)) /\ ToggleMedicationTaken
    \/ MedTick
    \/ ResetFire
    \/ Rerender

SpecDays == Init /\ [][NextDays]_vars

----------------------------------------------------------------------------
(* The assistant wrapper (services/geminiService.ts), applied to one call    *)

\* geminiService.ts:6: the disclaimer the system instruction asks the service
\* to end every answer with (written here without its accents)
Disclaimer == "Importante: Soy un asistente de IA y esta informacion no reemplaza el consejo de un medico. Siempre consulta a tu doctor o farmaceutico para cualquier pregunta medica."

\* A text is a sequence of sentences.  generateContent resolves with a text the
\* service chose, which the instruction does not constrain, or rejects.
ServiceTexts == UNION {[1..n -> {"Se usa para el dolor.", Disclaimer}] : n \in 0..MaxParts}
ServiceOutcomes ==
    {[threw |-> TRUE, text |-> <<>>]} \cup {[threw |-> FALSE, text |-> t] : t \in ServiceTexts}

\* geminiService.ts:8-25
askAboutMedication(medicationName, question, outcome) ==
    IF outcome.threw
    THEN <<"Lo siento, tuve un problema para obtener una respuesta.",
           "Por favor, intenta de nuevo mas tarde.">>
    ELSE outcome.text

\* geminiService.ts:28-45
getMedicationInfo(medicationName, outcome) ==
    IF outcome.threw
    THEN <<"Lo siento, tuve un problema para obtener la informacion.",
           "Por favor, intenta de nuevo mas tarde.">>
    ELSE outcome.text

\* App.tsx:302-309, 311-330: the calls the UI makes
AssistantInputs ==
    {[fn |-> "askAboutMedication", rec |-> [id |-> 0, name |-> n, question |-> q, service |-> o],
      at |-> 0, done |-> FALSE, out |-> FALSE] :
        n \in NameInputs \ {""}, q \in {"dosis?", "con comida?", "efectos?"},
        o \in ServiceOutcomes}
    \cup
    {[fn |-> "getMedicationInfo", rec |-> [id |-> 0, name |-> n, service |-> o],
      at |-> 0, done |-> FALSE, out |-> FALSE] :
        n \in NameInputs \ {""}, o \in ServiceOutcomes}

InitAssistant == InitWith({EmptyStore}) /\ hostPerm = "default" /\ probe \in AssistantInputs

EvalAsk ==
    /\ probe.fn = "askAboutMedication"
    /\ ~probe.done
    /\ probe' = [probe EXCEPT !.done = TRUE,
                              !.out = askAboutMedication(probe.rec.name, probe.rec.question,
                                                         probe.rec.service)]
    /\ UNCHANGED <<phase, permission, medications, notifiedIds, showPermissionBanner,
                   journalEntries, appointments, archivedFiles, pending, store, hostPerm, clk,
                   medInterval, apptInterval, resetTimer, nextId, tick, calls, purged,
                   prevStore, startup, orphanFired>>
    /\ UNCHANGED <<tooltip, medInfoCache, infoCalls, elapsed,
                   formState, newJournalEntry, appointmentForm, readers>>

EvalInfo ==
    /\ probe.fn = "getMedicationInfo"
    /\ ~probe.done
    /\ probe' = [probe EXCEPT !.done = TRUE,
                              !.out = getMedicationInfo(probe.rec.name, probe.rec.service)]
    /\ UNCHANGED <<phase, permission, medications, notifiedIds, showPermissionBanner,
                   journalEntries, appointments, archivedFiles, pending, store, hostPerm, clk,
                   medInterval, apptInterval, resetTimer, nextId, tick, calls, purged,
                   prevStore, startup, orphanFired>>
    /\ UNCHANGED <<tooltip, medInfoCache, infoCalls, elapsed,
                   formState, newJournalEntry, appointmentForm, readers>>

NextAssistant ==
    \/ EvalAsk
    \/ EvalInfo

SpecAssistant == InitAssistant /\ [][NextAssistant]_vars

----------------------------------------------------------------------------
(* The record handlers of one session, forms filled in and submitted in one  *)
(* step: the adds, the file input, the toggle and delete buttons.            *)

InitRecords == InitWith({EmptyStore}) /\ hostPerm = "default" /\ probe = NoProbe

NextRecords ==
    \/ Open
    \/ AddMedication
    \/ ToggleMedicationTaken
    \/ DeleteMedication
    \/ AddAppointment
    \/ DeleteAppointment
    \/ AddJournalEntry
    \/ HandleFileChange
    \/ ReaderLoad
    \/ ReaderError
    \/ DeleteFile

SpecRecords == InitRecords /\ [][NextRecords]_vars

\* The three forms of one session, typed into field by field and submitted
NextForms ==
    \/ Open
    \/ HandleFormChange
    \/ AddMedication
    \/ AddMedicationRejected
    \/ HandleAppointmentFormChange
    \/ AddAppointment
    \/ AddAppointmentRejected
    \/ SetNewJournalEntry
    \/ AddJournalEntry
    \/ AddJournalEntryRejected

SpecForms == InitRecords /\ [][NextForms]_vars

----------------------------------------------------------------------------
(* Sessions in which a write to the store can fail: localStorage.setItem    *)
(* throws when the quota is exceeded, which the data URL of an archived     *)
(* file can cause; the save effect catches the exception and logs it        *)
(* (App.tsx:170-176), so the stored blob stays as it was.                   *)

ReaderLoadQuotaExceeded ==
    /\ phase = "running"
    /\ nextId < MaxIds
    /\ \E f \in Files :
        /\ readers[f] = "loading"
        /\ readers' = [readers EXCEPT ![f] = "loaded"]
        /\ CommitArchive(journalEntries, readerOnload(archivedFiles, generateId(nextId), f), {})
    /\ nextId' = generateId(nextId)
    /\ tick' = [NoTick EXCEPT !.kind = "addFile", !.matched = {generateId(nextId)}]
    /\ UNCHANGED <<showPermissionBanner, hostPerm, clk, resetTimer, calls, purged, orphanFired>>
    /\ UNCHANGED <<tooltip, medInfoCache, infoCalls, elapsed,
                   probe, formState, newJournalEntry, appointmentForm>>

NextQuota ==
    \/ Open
    \/ Render
    \/ AddMedication
    \/ HandleFileChange
    \/ ReaderLoad
    \/ ReaderLoadQuotaExceeded
    \/ DeleteFile
    \/ RequestPermission

SpecQuota == InitRecords /\ [][NextQuota]_vars

----------------------------------------------------------------------------
(* The info tooltip: clicks on the info button of a medication, the answers *)
(* of getMedicationInfo arriving later, closes and deletes.                 *)

\* App.tsx:311-325: the part of handleInfoClick before the await.  The tooltip
\* opens on the medication in loading state; a cached answer that is not the
\* empty string fills it at once, otherwise getMedicationInfo is called.
HandleInfoClick ==
    /\ phase = "running"
    /\ \E i \in 1..Len(medications) :
        LET med == medications[i]
            cached == {e \in medInfoCache : e[1] = med.name /\ e[2].text # <<>>}
        IN  IF cached # {}
            THEN /\ tooltip' = [medId |-> med.id, content |-> (CHOOSE e \in cached : TRUE)[2],
                                isLoading |-> FALSE]
                 /\ infoCalls' = infoCalls
            ELSE /\ tooltip' = [medId |-> med.id, content |-> handleCloseTooltip.content,
                                isLoading |-> TRUE]
                 /\ infoCalls' = infoCalls \cup {med.name}
    /\ tick' = NoTick
    /\ UNCHANGED <<phase, permission, medications, notifiedIds, showPermissionBanner,
                   journalEntries, appointments, archivedFiles, pending, store, hostPerm, clk,
                   medInterval, apptInterval, resetTimer, nextId, calls, purged, prevStore,
                   startup, orphanFired>>
    /\ UNCHANGED <<medInfoCache, elapsed, probe, formState, newJournalEntry, appointmentForm,
                   readers>>

\* App.tsx:327-329: the part of handleInfoClick after the await.  The answer of
\* one outstanding call arrives: it is cached under the name asked for and put
\* into whatever tooltip there is now.
HandleInfoClickResumed ==
    /\ phase = "running"
    /\ \E name \in infoCalls :
        \E outcome \in {o \in ServiceOutcomes : Len(o.text) <= 1} :
            LET info == [about |-> name, text |-> getMedicationInfo(name, outcome)]
            IN  /\ medInfoCache' = {e \in medInfoCache : e[1] # name} \cup {<<name, info>>}
                /\ tooltip' = [tooltip EXCEPT !.content = info, !.isLoading = FALSE]
                /\ infoCalls' = infoCalls \ {name}
    /\ tick' = NoTick
    /\ UNCHANGED <<phase, permission, medications, notifiedIds, showPermissionBanner,
                   journalEntries, appointments, archivedFiles, pending, store, hostPerm, clk,
                   medInterval, apptInterval, resetTimer, nextId, calls, purged, prevStore,
                   startup, orphanFired>>
    /\ UNCHANGED <<elapsed, probe, formState, newJournalEntry, appointmentForm, readers>>

\* App.tsx:332-334
HandleCloseTooltip ==
    /\ phase = "running"
    /\ tooltip.medId # 0          \* the close button is part of the open tooltip
    /\ tooltip' = handleCloseTooltip
    /\ tick' = NoTick
    /\ UNCHANGED <<phase, permission, medications, notifiedIds, showPermissionBanner,
                   journalEntries, appointments, archivedFiles, pending, store, hostPerm, clk,
                   medInterval, apptInterval, resetTimer, nextId, calls, purged, prevStore,
                   startup, orphanFired>>
    /\ UNCHANGED <<medInfoCache, infoCalls, elapsed, probe, formState, newJournalEntry,
                   appointmentForm, readers>>

\* The state after Open and two AddMedication at Clock(1), with medications of
\* two different names
InitTooltip ==
    /\ phase = "running"
    /\ permission = "default"
    /\ hostPerm = "default"
    /\ medications = addMedication(addMedication(<<>>, 1, "ibu", "400mg", "09:00"),
                                   2, "para", "1g", "09:00")
    /\ notifiedIds = {}
    /\ showPermissionBanner = addMedicationBanner("default", FALSE)
    /\ journalEntries = <<>>
    /\ appointments = <<>>
    /\ archivedFiles = <<>>
    /\ pending = NoPending
    /\ store = SaveEffects(EmptyStore, Keys, medications, <<>>, <<>>, <<>>)
    /\ clk = 1
    /\ elapsed = 0
    /\ medInterval = PollInterval("default", Clock(1))
    /\ apptInterval = PollInterval("default", Clock(1))
    /\ resetTimer = [state |-> "initial", due |-> NextResetAt(Clock(1))]
    /\ nextId = 2
    /\ tick = [NoTick EXCEPT !.kind = "addMedication", !.matched = {2}]
    /\ calls = [i \in Ids |-> 0]
    /\ purged = {}
    /\ prevStore = EmptyStore
    /\ startup = 0
    /\ orphanFired = FALSE
    /\ formState = EmptyFormState
    /\ newJournalEntry = EmptyJournalEntry
    /\ appointmentForm = EmptyAppointmentForm
    /\ readers = NoReaders
    /\ probe = NoProbe
    /\ tooltip = handleCloseTooltip
    /\ medInfoCache = {}
    /\ infoCalls = {}

NextTooltip ==
    \/ HandleInfoClick
    \/ HandleInfoClickResumed
    \/ HandleCloseTooltip
    \/ DeleteMedication

SpecTooltip == InitTooltip /\ [][NextTooltip]_vars

----------------------------------------------------------------------------
(* Properties *)

\* C1: within one session and one day-cycle (between two daily resets) each
\* medication id is passed to showNotification at most once.
C1_AtMostOncePerDayCycle == \A i \in Ids : calls[i] <= 1

\* The notified flags of the appointments, wherever an appointment exists: in
\* memory, in an update waiting for its render, in the stored blob
FlagsOf(appts, pend, st) ==
    {<<appts[i].id, appts[i].notified>> : i \in 1..Len(appts)}
    \cup {<<a.id, a.notified>> : a \in {Applied(pend.appts, <<>>)[i] :
                                          i \in 1..Len(Applied(pend.appts, <<>>))}}
    \cup {<<j[1], j[6]>> : j \in {st["appointments"].items[i] :
                                    i \in 1..Len(st["appointments"].items)}}

\* C2: once an appointment's notified flag is true, no step sets it back to
\* false while the appointment exists, and no appointment tick passes the
\* appointment to showNotification.
C2_NotifiedOneShot ==
    [][\A id \in Ids :
          <<id, TRUE>> \in FlagsOf(appointments, pending, store)
          => /\ <<id, FALSE>> \notin FlagsOf(appointments', pending', store')
             /\ (tick'.kind = "appt" => id \notin tick'.called)]_vars

\* C2 witness: an appointment tick ran over an appointment that is inside the
\* window and already notified, and called nothing.
C2_Witness ==
    /\ tick.kind = "appt"
    /\ tick.called = {}
    /\ \E i \in 1..Len(appointments) :
          /\ appointments[i].notified
          /\ isUpcoming([appointments[i] EXCEPT !.notified = FALSE], Now)

\* C3: once a session has finished starting up on the store an earlier session
\* left, every collection in memory equals the snapshot stored under its key and
\* the stored snapshots are unchanged.
C3_ReloadConsistent ==
    (StartupDone /\ \A k \in Keys : prevStore[k].kind = "json")
    => /\ \A k \in Keys : Mem(k) = Parse(k, prevStore[k])
       /\ store = prevStore

\* C4: the notified-set holds only ids of medications that are in the collection.
C4_NotifiedSubsetOfMedications == notifiedIds \subseteq IdsOf(medications)

\* C5: a medication that was deleted after a tick had put it into the
\* notified-set is in no collection a tick can read (memory, a queued load, the
\* stored blob), and no medication tick matches it or passes it to
\* showNotification.
C5_DeletedNeverNotified ==
    \A id \in {p[1] : p \in purged} :
        /\ id \notin IdsOf(medications)
        /\ id \notin IdsOf(Applied(pending.meds, <<>>))
        /\ id \notin IdsOf(Parse("medications", store["medications"]))
        /\ tick.kind = "med" => id \notin tick.matched \cup tick.called

\* C5 witness: a medication tick that matched another medication ran after such
\* a delete.
C5_Witness == purged # {} /\ tick.kind = "med" /\ tick.called # {}

\* C5 witness: a medication tick ran in a later session than the delete.
C5_WitnessReload == (\E p \in purged : p[2] = 1) /\ tick.kind = "med" /\ tick.called # {}

C7_CorruptAppointmentsIsolated ==
    (/\ StartupDone
     /\ prevStore["appointments"] = Corrupt
     /\ \A k \in Keys \ {"appointments"} : prevStore[k].kind # "corrupt")
    => \A k \in Keys \ {"appointments"} :
          prevStore[k].kind = "json" => Mem(k) = Parse(k, prevStore[k])

\* C8: for each key whose blob is absent or corrupt at load, once the updates
\* of the mount's load effect are rendered the other three collections are in
\* memory with their stored contents and their stored blobs are not replaced by
\* empty collections.
C8_EveryKeyIsolated ==
    LoadCommitted
    => \A k \in Keys :
          (/\ prevStore[k].kind \in {"absent", "corrupt"}
           /\ \A o \in Keys \ {k} : prevStore[o].kind = "json")
          => \A o \in Keys \ {k} : Mem(o) = Parse(o, prevStore[o]) /\ store[o] = prevStore[o]

\* C9: when a call of the host notification throws during a tick, the dedup
\* update of that tick is still applied to every record the tick matched.
C9_DedupAppliedDespiteThrow ==
    tick.threw
    => /\ (tick.kind = "med" => tick.matched \subseteq notifiedIds)
       /\ (tick.kind = "appt"
              => \A id \in tick.matched : <<id, TRUE>> \in FlagsOf(appointments, NoPending, EmptyStore))

\* C10: after teardown of the session no daily-reset callback fires.
C10_NoResetAfterTeardown == ~orphanFired

\* C11: after teardown of the session no interval of either poll loop exists,
\* so neither callback runs and neither loop calls showNotification.
C11_NoPollAfterTeardown ==
    phase = "torndown"
    => /\ ~medInterval.on
       /\ ~apptInterval.on
       /\ tick.kind \notin {"med", "appt"}

\* C11 witness: a session with permission granted was torn down, and a
\* medication it stored is due and not taken at the current instant.
C11_Witness ==
    /\ phase = "torndown"
    /\ hostPerm = "granted"
    /\ \E i \in 1..Len(store["medications"].items) :
          isMedicationDue(MedFromJson(store["medications"].items[i]), Now)

\* C12: the daily reset is idempotent: after every reset all taken flags are
\* false and the notified-set is empty, and running the reset again on that
\* state gives the same state.
C12_ResetIdempotent ==
    [][tick'.kind = "reset"
       => /\ \A i \in 1..Len(medications') : ~medications'[i].isTaken
          /\ notifiedIds' = {}
          /\ resetTaken(medications') = medications'
          /\ resetNotified(notifiedIds') = notifiedIds'
          /\ resetTaken(resetTaken(medications)) = resetTaken(medications)]_vars

\* C12 witness: a reset that had taken flags or notified ids to clear has run
C12_Witness ==
    /\ tick.kind = "reset"
    /\ tick.matched # {}
    /\ Len(medications) > 0
    /\ notifiedIds = {}

\* C13: a daily reset leaves the appointments (in memory and stored) unchanged
\* and changes no field of a medication other than isTaken; the medications
\* keep their order.
C13_ResetFrame ==
    [][tick'.kind = "reset"
       => /\ appointments' = appointments
          /\ store'["appointments"] = store["appointments"]
          /\ Len(medications') = Len(medications)
          /\ \A i \in 1..Len(medications) :
                medications'[i] = [medications[i] EXCEPT !.isTaken = medications'[i].isTaken]]_vars

\* C13 witness: a reset has run over a medication and a notified appointment
C13_Witness ==
    /\ tick.kind = "reset"
    /\ Len(medications) > 0
    /\ \E i \in 1..Len(appointments) : appointments[i].notified

\* C14: in a live session one reset timer is pending, due at a local midnight
\* plus 5 seconds not more than a day ahead; every fire happens when the timer
\* is due, clears the taken flags and the notified-set and schedules the timer
\* for the following local midnight plus 5 seconds, one day after the fired one.
C14_OneResetPerDay ==
    /\ [](phase \in {"starting", "running"}
            => /\ resetTimer.state # "none"
               /\ resetTimer.due >= Now
               /\ resetTimer.due - Now <= 24 * 60 * 60 * 1000
               /\ resetTimer.due % (24 * 60 * 60 * 1000) = 5 * 1000)
    /\ [][tick'.kind = "reset"
          => /\ Now >= resetTimer.due
             /\ resetTimer'.state # "none"
             /\ resetTimer'.due = ((Now \div (24 * 60 * 60 * 1000)) + 1) * (24 * 60 * 60 * 1000) + 5 * 1000
             /\ resetTimer'.due = resetTimer.due + 24 * 60 * 60 * 1000
             /\ \A i \in 1..Len(medications') : ~medications'[i].isTaken
             /\ notifiedIds' = {}]_vars

\* C14 witness: the reset has fired in a running session and the next one is
\* pending for the following day.
C14_Witness ==
    /\ tick.kind = "reset"
    /\ phase = "running"
    /\ resetTimer.state = "rescheduled"
    /\ resetTimer.due = Now + 24 * 60 * 60 * 1000

\* C15: isMedicationDue(med) is true if and only if med is not taken and the
\* instant is strictly later than the same day's med.time with seconds and
\* milliseconds zero; a medication at 09:00 is not due at 08:59:59, not due at
\* 09:00:00.000 and due at 09:00:01.
C15_DueIffUntakenAndPast ==
    (probe.fn = "isMedicationDue" /\ probe.done)
    => LET minuteOfDay == CASE probe.rec.time = "00:00" -> 0
                            [] probe.rec.time = "09:00" -> 540
                            [] probe.rec.time = "09:59" -> 599
                            [] probe.rec.time = "10:00" -> 600
                            [] probe.rec.time = "10:01" -> 601
                            [] probe.rec.time = "23:59" -> 1439
           msOfDay == probe.at % 86400000
       IN  /\ probe.out <=> (~probe.rec.isTaken /\ msOfDay > minuteOfDay * 60000)
           /\ (probe.rec.time = "09:00" /\ ~probe.rec.isTaken)
                 => /\ (msOfDay = 32399000 => ~probe.out)
                    /\ (msOfDay = 32400000 => ~probe.out)
                    /\ (msOfDay = 32401000 => probe.out)

\* C15 witness: a medication at 09:00, not taken, evaluated at exactly 09:00:00.000
C15_Witness ==
    /\ probe.fn = "isMedicationDue" /\ probe.done
    /\ probe.rec.time = "09:00" /\ ~probe.rec.isTaken
    /\ probe.at % 86400000 = 32400000
    /\ ~probe.out

\* C16: an appointment is selected as upcoming if and only if it is not
\* notified and its instant is strictly after now and at most 24 hours after
\* now; 23h59m ahead is selected, 24h01m ahead is not, a passed one never is.
C16_UpcomingIffInWindow ==
    (probe.fn = "isUpcoming" /\ probe.done)
    => LET minuteOfDay == CASE probe.rec.time = "00:00" -> 0
                            [] probe.rec.time = "09:00" -> 540
                            [] probe.rec.time = "09:59" -> 599
                            [] probe.rec.time = "10:00" -> 600
                            [] probe.rec.time = "10:01" -> 601
                            [] probe.rec.time = "23:59" -> 1439
           instant == probe.rec.date * 86400000 + minuteOfDay * 60000
           ahead == instant - probe.at
       IN  /\ probe.out <=> (~probe.rec.notified /\ ahead > 0 /\ ahead <= 86400000)
           /\ ~probe.rec.notified
                 => /\ (ahead = 86400000 - 60000 => probe.out)
                    /\ (ahead = 86400000 + 60000 => ~probe.out)
                    /\ (ahead <= 0 => ~probe.out)

\* C16 witness: now is 10:00 of a day and the appointment, not notified, is at
\* 10:00 of the next day, exactly 24 hours ahead, and is selected.
C16_Witness ==
    /\ probe.fn = "isUpcoming" /\ probe.done
    /\ ~probe.rec.notified
    /\ probe.rec.time = "10:00"
    /\ probe.rec.date * 86400000 + 36000000 - probe.at = 86400000
    /\ probe.out

\* C17: in every state where the permission state is not granted no interval
\* of either poll loop exists, and a step that changes the permission state to
\* granted arms both intervals in the same session.
C17_PollTimersIffGranted ==
    /\ [](permission # "granted" => ~medInterval.on /\ ~apptInterval.on)
    /\ [][(permission # "granted" /\ permission' = "granted")
          => /\ phase' \in {"starting", "running"}
             /\ medInterval' = [on |-> TRUE, since |-> Now]
             /\ apptInterval' = [on |-> TRUE, since |-> Now]]_vars

\* C17 witness: requestPermission was answered with granted in a session that
\* has a medication, and both intervals exist.
C17_Witness ==
    /\ phase = "starting" /\ startup = 0
    /\ permission = "granted"
    /\ Len(medications) > 0
    /\ medInterval.on /\ apptInterval.on

\* C18: in a running session whose permission state is denied while the host's
\* permission has become granted outside the application, both poll loops are
\* still polling, so that notifications can resume in the same session.
C18_PollsWhileDenied ==
    (phase = "running" /\ permission = "denied" /\ hostPerm = "granted")
    => medInterval.on /\ apptInterval.on

\* C19: a tick of a poll loop, whose interval every render stops and starts
\* again, never passes to showNotification a medication id that is in the
\* notified-set before the tick, nor an appointment whose notified flag is true
\* before the tick.
C19_NoRepeatAfterRestart ==
    [][/\ (tick'.kind = "med" => tick'.called \cap notifiedIds = {})
       /\ (tick'.kind = "appt"
             => \A i \in 1..Len(appointments) :
                   appointments[i].notified => appointments[i].id \notin tick'.called)]_vars

\* C19 witness: a medication tick ran on an interval created after the
\* notified-set was last changed, over a medication that is due and in the
\* notified-set, and did not pass it to showNotification.
C19_Witness ==
    /\ tick.kind = "med"
    /\ \E i \in 1..Len(medications) :
          /\ isMedicationDue(medications[i], Now)
          /\ medications[i].id \in notifiedIds
          /\ medications[i].id \notin tick.called

\* C20: an appointment tick sets notified = true on exactly the appointments
\* it matched, and leaves every other appointment, every other field, the
\* order and the membership of the collection unchanged.
C20_TickMarksExactlyMatched ==
    [][tick'.kind = "appt"
       => /\ Len(appointments') = Len(appointments)
          /\ \A i \in 1..Len(appointments) :
                appointments'[i] = IF appointments[i].id \in tick'.matched
                                   THEN [appointments[i] EXCEPT !.notified = TRUE]
                                   ELSE appointments[i]]_vars

\* C21: in every quiescent state of a session (running, no update queued) the
\* blob stored under each of the four keys is the serialization of the
\* collection in memory; this covers the state after every record mutator,
\* appointment tick and daily reset, whose save effect is part of the step.
C21_StoreMirrorsMemory ==
    (phase = "running" /\ pending = NoPending) =>
        \A k \in Keys : store[k] = Stringify(k, Mem(k))

\* a quiescent state after an appointment tick marked an appointment, with a
\* medication in memory as well, and both blobs equal to the collections
C21_Witness ==
    /\ phase = "running" /\ pending = NoPending
    /\ tick.kind = "appt" /\ ~tick.threw
    /\ medications # <<>>
    /\ \E i \in 1..Len(appointments) : appointments[i].notified
    /\ store["appointments"] = Stringify("appointments", appointments)
    /\ store["medications"] = Stringify("medications", medications)

\* C22: on a host without the notification capability the permission state of
\* an open session is "unsupported" in every state, after mount and after
\* requestPermission.
C22_UnsupportedWithoutCapability ==
    (hostPerm = "absent" /\ phase \in {"starting", "running"}) => permission = "unsupported"

\* The sequence new is old with one record of the given id added at the end /
\* at the front, the records of old unchanged and in their order
AddedAtEnd(old, new, id) ==
    /\ Len(new) = Len(old) + 1
    /\ \A i \in 1..Len(old) : new[i] = old[i]
    /\ new[Len(new)].id = id
AddedAtFront(old, new, id) ==
    /\ Len(new) = Len(old) + 1
    /\ \A i \in 1..Len(old) : new[i + 1] = old[i]
    /\ new[1].id = id

\* The id of the record the step that just ran is about
StepId(t) == CHOOSE id \in t.matched : TRUE

\* C23 as stated: a successful add to any of the four collections puts exactly
\* one new record, with default flags, at the end of the collection and leaves
\* the records that were there unchanged and in their order.
C23_AddAppendsAtEnd ==
    [][/\ tick'.kind = "addMedication" =>
            /\ AddedAtEnd(medications, medications', StepId(tick'))
            /\ ~medications'[Len(medications')].isTaken
       /\ tick'.kind = "addAppointment" =>
            /\ AddedAtEnd(appointments, appointments', StepId(tick'))
            /\ ~appointments'[Len(appointments')].notified
       /\ tick'.kind = "addJournalEntry" =>
            AddedAtEnd(journalEntries, journalEntries', StepId(tick'))
       /\ tick'.kind = "addFile" =>
            AddedAtEnd(archivedFiles, archivedFiles', StepId(tick'))]_vars

\* C23 amended: a successful add of a medication, an appointment or an archived
\* file puts exactly one new record, with default flags, at the end of the
\* collection; a successful add of a journal entry puts it at the front; in
\* all four the records that were there are unchanged and in their order.
C23_AddPutsOneRecord ==
    [][/\ tick'.kind = "addMedication" =>
            /\ AddedAtEnd(medications, medications', StepId(tick'))
            /\ ~medications'[Len(medications')].isTaken
       /\ tick'.kind = "addAppointment" =>
            /\ AddedAtEnd(appointments, appointments', StepId(tick'))
            /\ ~appointments'[Len(appointments')].notified
       /\ tick'.kind = "addJournalEntry" =>
            AddedAtFront(journalEntries, journalEntries', StepId(tick'))
       /\ tick'.kind = "addFile" =>
            AddedAtEnd(archivedFiles, archivedFiles', StepId(tick'))]_vars

\* a second journal entry was just added, in front of the first
C23_Witness ==
    /\ tick.kind = "addJournalEntry"
    /\ Len(journalEntries) = 2
    /\ journalEntries[1].id = 2 /\ journalEntries[2].id = 1

\* a second medication was just added, behind a medication that is taken
C23_WitnessMedication ==
    /\ tick.kind = "addMedication"
    /\ Len(medications) = 2
    /\ medications[1].isTaken /\ ~medications[2].isTaken

\* C24: a submit of a form with a missing required field creates no record and
\* changes nothing: a rejected submit leaves the collection, its stored blob
\* and the form as they were, and a submit is accepted only when no required
\* field is missing (a medication has a name and a time; an appointment has a
\* date, a time, a specialty and a location; a journal entry has a text that
\* is not empty and not only whitespace).
C24_RejectedSubmitChangesNothing ==
    [][/\ tick'.kind = "rejectedMedication" =>
            /\ medications' = medications
            /\ store'["medications"] = store["medications"]
            /\ formState' = formState
       /\ tick'.kind = "rejectedAppointment" =>
            /\ appointments' = appointments
            /\ store'["appointments"] = store["appointments"]
            /\ appointmentForm' = appointmentForm
       /\ tick'.kind = "rejectedJournalEntry" =>
            /\ journalEntries' = journalEntries
            /\ store'["journalEntries"] = store["journalEntries"]
            /\ newJournalEntry' = newJournalEntry
       /\ tick'.kind = "addMedication" =>
            LET m == medications'[Len(medications')] IN m.name # "" /\ m.time # ""
       /\ tick'.kind = "addAppointment" =>
            LET a == appointments'[Len(appointments')]
            IN  a.date # 0 /\ a.time # "" /\ a.specialty # "" /\ a.location # ""
       /\ tick'.kind = "addJournalEntry" =>
            journalEntries'[1].content \notin {"", " "}
       /\ (formState' = formState /\ appointmentForm' = appointmentForm
           /\ newJournalEntry' = newJournalEntry /\ tick'.kind = "none") =>
            (medications' = medications /\ appointments' = appointments
             /\ journalEntries' = journalEntries)]_vars

\* a medication form without a name was just submitted, with a medication
\* already in the collection: the form still holds what was typed
C24_Witness ==
    /\ tick.kind = "rejectedMedication"
    /\ formState = [name |-> "", dosage |-> "400mg", time |-> "09:00"]
    /\ Len(medications) = 1
    /\ store["medications"] = Stringify("medications", medications)

\* the same for an appointment form without a location and a journal text of
\* one blank
C24_WitnessAppointment ==
    /\ tick.kind = "rejectedAppointment"
    /\ appointmentForm = [date |-> 2, time |-> "09:00", specialty |-> "cardio", location |-> ""]
C24_WitnessJournal ==
    /\ tick.kind = "rejectedJournalEntry"
    /\ newJournalEntry = " "

\* C25: toggleMedicationTaken(id) flips isTaken of exactly the medication with
\* that id and leaves every other medication, every other field, the order,
\* the notified-set and the other collections unchanged; toggling the same id
\* twice gives back the collection there was.
C25_ToggleFlipsExactlyOne ==
    /\ [][tick'.kind = "toggle" =>
            /\ Len(medications') = Len(medications)
            /\ \A i \in 1..Len(medications) :
                /\ medications'[i].id = medications[i].id
                /\ medications'[i].name = medications[i].name
                /\ medications'[i].dosage = medications[i].dosage
                /\ medications'[i].time = medications[i].time
                /\ medications'[i].isTaken =
                     IF medications[i].id = StepId(tick') THEN ~medications[i].isTaken
                     ELSE medications[i].isTaken
            /\ notifiedIds' = notifiedIds
            /\ appointments' = appointments
            /\ journalEntries' = journalEntries
            /\ archivedFiles' = archivedFiles]_vars
    /\ [](\A id \in IdsOf(medications) :
            toggleMedicationTaken(toggleMedicationTaken(medications, id), id) = medications)

\* the second of two medications, which is in the notified-set, was just
\* toggled to taken; the first is untouched
C25_Witness ==
    /\ tick.kind = "toggle" /\ tick.matched = {2}
    /\ Len(medications) = 2
    /\ medications[2].id = 2 /\ medications[2].isTaken /\ ~medications[1].isTaken
    /\ 2 \in notifiedIds

\* The sequence new is old without its records of the given id, the others
\* unchanged and in their order
RemovedById(old, new, id) ==
    LET kept == {i \in 1..Len(old) : old[i].id # id}
    IN  /\ Len(new) = Cardinality(kept)
        /\ \A i \in kept : new[Cardinality({j \in kept : j <= i})] = old[i]

\* C26: each delete removes exactly the record with the given id from its own
\* collection, keeps the remaining records unchanged and in order, and leaves
\* the other three collections unchanged; a delete of an id that is not in
\* the collection changes no collection.
C26_DeleteRemovesExactlyOne ==
    [][/\ tick'.kind = "deleteMedication" =>
            /\ RemovedById(medications, medications', StepId(tick'))
            /\ Len(medications') >= Len(medications) - 1
            /\ appointments' = appointments /\ journalEntries' = journalEntries
            /\ archivedFiles' = archivedFiles
       /\ tick'.kind = "deleteAppointment" =>
            /\ RemovedById(appointments, appointments', StepId(tick'))
            /\ Len(appointments') >= Len(appointments) - 1
            /\ medications' = medications /\ journalEntries' = journalEntries
            /\ archivedFiles' = archivedFiles
       /\ tick'.kind = "deleteFile" =>
            /\ RemovedById(archivedFiles, archivedFiles', StepId(tick'))
            /\ Len(archivedFiles') >= Len(archivedFiles) - 1
            /\ medications' = medications /\ journalEntries' = journalEntries
            /\ appointments' = appointments
       /\ (/\ tick'.kind \in {"deleteMedication", "deleteAppointment", "deleteFile"}
           /\ StepId(tick') \notin IdsOf(CASE tick'.kind = "deleteMedication" -> medications
                                           [] tick'.kind = "deleteAppointment" -> appointments
                                           [] tick'.kind = "deleteFile" -> archivedFiles)) =>
            /\ medications' = medications /\ appointments' = appointments
            /\ journalEntries' = journalEntries /\ archivedFiles' = archivedFiles
            /\ store' = store]_vars

\* the first of two archived files was just deleted, the second is kept
C26_Witness ==
    /\ tick.kind = "deleteFile" /\ tick.matched = {1}
    /\ Len(archivedFiles) = 1 /\ archivedFiles[1].id = 2

\* a delete of a medication id that is not in the collection just ran
C26_WitnessAbsent ==
    /\ tick.kind = "deleteMedication" /\ tick.matched = {2}
    /\ Len(medications) = 1 /\ medications[1].id = 1

\* C27: the notified-set is never written to the store (a step that changes
\* the notified-set and none of the four collections leaves the store as it
\* is), it is empty when a session opens and until the first handler or tick
\* of the session, and it is empty immediately after every daily reset.
C27_NotifiedSetIsTransient ==
    /\ [][(/\ notifiedIds' # notifiedIds
           /\ medications' = medications /\ appointments' = appointments
           /\ journalEntries' = journalEntries /\ archivedFiles' = archivedFiles)
          => store' = store]_vars
    /\ [][phase = "closed" => notifiedIds' = {}]_vars
    /\ [](startup > 0 => notifiedIds = {})
    /\ [](tick.kind = "reset" => notifiedIds = {})

\* a daily reset just emptied a notified-set that held the id of a medication
\* no longer in the collection
C27_Witness ==
    /\ tick.kind = "reset"
    /\ tick.matched # {}
    /\ medications = <<>>
    /\ notifiedIds = {}

\* a session has just opened after a session in which a notified medication
\* was deleted
C27_WitnessSession ==
    /\ startup > 0
    /\ \E p \in purged : p[2] = 1
    /\ notifiedIds = {}

\* C28: every string askAboutMedication or getMedicationInfo returns ends with
\* the fixed safety disclaimer, whatever the generative service answered.
C28_AnswerEndsWithDisclaimer ==
    (probe.fn \in {"askAboutMedication", "getMedicationInfo"} /\ probe.done) =>
        /\ Len(probe.out) > 0
        /\ probe.out[Len(probe.out)] = Disclaimer

\* C29: the selected files are read independently.  A read that fails creates
\* no record and leaves the archive, the store and every other read as they
\* are; a read that completes adds the record of its own file, whatever the
\* state of the other reads, and leaves them as they are; a record is added to
\* the archive only by a read that completes.
C29_ReadsAreIndependent ==
    [][/\ \A f \in Files :
            (readers[f] = "loading" /\ readers'[f] = "failed") =>
                /\ archivedFiles' = archivedFiles
                /\ store' = store
                /\ \A g \in Files \ {f} : readers'[g] = readers[g]
       /\ tick'.kind = "addFile" =>
            \E f \in Files :
                /\ readers[f] = "loading" /\ readers'[f] = "loaded"
                /\ \A g \in Files \ {f} : readers'[g] = readers[g]
                /\ AddedAtEnd(archivedFiles, archivedFiles', StepId(tick'))
                /\ archivedFiles'[Len(archivedFiles')].name = f
       /\ Len(archivedFiles') > Len(archivedFiles) => tick'.kind = "addFile"]_vars

\* of two files selected together the read of one failed and the other was
\* just added
C29_Witness ==
    /\ tick.kind = "addFile"
    /\ readers["scan.pdf"] = "failed"
    /\ readers["photo.png"] = "loaded"
    /\ Len(archivedFiles) = 1 /\ archivedFiles[1].name = "photo.png"

\* one file was just added while the read of the other is still in flight
C29_WitnessPending ==
    /\ tick.kind = "addFile"
    /\ readers["scan.pdf"] = "loading"
    /\ readers["photo.png"] = "loaded"
    /\ Len(archivedFiles) = 1 /\ archivedFiles[1].name = "photo.png"

\* C30: the appointment addAppointment creates denotes, by its date and time,
\* an instant strictly after the instant of its creation.
C30_CreatedInTheFuture ==
    [][tick'.kind = "addAppointment" =>
            LET a == appointments'[Len(appointments')]
            IN  DateTime(a.date, a.time) > Now]_vars

\* The ids of the medications that are un-taken, whose time of day has passed
\* at instant t, and that are not in the set notified
DueUnnotified(meds, notified, t) ==
    {meds[i].id : i \in {j \in 1..Len(meds) :
        /\ ~meds[j].isTaken
        /\ t > StartOfDay(t) + Hours(meds[j].time) * HourMs + Minutes(meds[j].time) * MinuteMs
        /\ meds[j].id \notin notified}}

\* C31: a medication tick passes to showNotification exactly the medications
\* of the collection that are due and absent from the notified-set, and
\* afterwards the notified-set is its previous value united with their ids; a
\* tick with no match changes neither the notified-set nor the collections.
C31_TickNotifiesExactlyDue ==
    [][tick'.kind = "med" =>
            /\ tick'.called = DueUnnotified(medications, notifiedIds, Now)
            /\ notifiedIds' = notifiedIds \cup DueUnnotified(medications, notifiedIds, Now)
            /\ medications' = medications
            /\ store' = store]_vars

\* C32: in a session that stays alive with permission granted, a medication
\* that has been due, un-taken and absent from the notified-set for two poll
\* periods has been passed to showNotification, whatever the user did and
\* whatever rendered in between.
C32_DueIsNotifiedWithinTwoPeriods ==
    (phase = "running" /\ permission = "granted" /\ elapsed >= 2 * P1) =>
        \A id \in DueUnnotified(medications, notifiedIds, Now) : calls[id] > 0

\* C33: a taken flag set on one local day is false at the first medication
\* evaluation of the following local day: a medication tick that runs on a
\* later day, past the instant 00:00:05 of the daily reset, finds no
\* medication marked as taken (under SpecDays flags are set on the first day
\* only), also in a session that was started after midnight from the
\* persisted medications.
C33_TakenIsFalseNextDay ==
    (/\ tick.kind = "med"
     /\ StartOfDay(Now) > StartOfDay(Clock(0))
     /\ Now > StartOfDay(Now) + GraceSeconds * SecondMs) =>
        \A i \in 1..Len(medications) : ~medications[i].isTaken

\* C34: a change of the permission state during a session leaves the four
\* in-memory collections unchanged: the render that follows the resolution
\* of requestPermission (the one in which the load effect has run again)
\* commits the medications, journal entries, archived files and appointments
\* it found, also when the stored blob is older than the collection in memory.
C34_PermissionChangeKeepsCollections ==
    [][(phase = "starting" /\ startup = 0) =>
            /\ medications' = medications
            /\ journalEntries' = journalEntries
            /\ archivedFiles' = archivedFiles
            /\ appointments' = appointments]_vars

\* C35: a medication that became due while the permission was not granted is
\* not lost, and is not repeated: once the permission is granted in the same
\* session, after every medication tick each medication that is due and
\* un-taken has been passed to showNotification exactly once.
C35_DueBeforeGrantNotifiedOnce ==
    [][tick'.kind = "med" =>
            \A id \in DueUnnotified(medications, {}, Now) : calls'[id] = 1]_vars

\* C36: whenever the info tooltip is open and not loading, its content is the
\* answer requested for the medication identified by tooltip.medId: that
\* medication is in the list and the text was asked for under its name.
C36_TooltipShowsItsMedication ==
    (tooltip.medId # 0 /\ ~tooltip.isLoading) =>
        \E i \in 1..Len(medications) :
            /\ medications[i].id = tooltip.medId
            /\ tooltip.content.about = medications[i].name

====
